---- MODULE Spec2Model ----
(***************************************************************************)
(* Model of the request pipeline of @neatsuite/http (NetSuiteClient):      *)
(* the lazily loaded retry controller, the middleware chain, the terminal  *)
(* transport call, the status check and the retry decision.                *)
(***************************************************************************)
EXTENDS Integers, Sequences, FiniteSets, TLC

\* ------------------------------------------------------------------ bounds
\* most middlewares ever registered on the client
MaxMiddlewares == 2
\* largest per-request `retries` option / configured `retries` tried
MaxRetries == 1

\* ------------------------------------------------------- program constants
\* constructor default of config.retries
DefaultRetries == 3
\* fallback of `retries || 3` in retryOptions
FallbackRetries == 3
\* `response.status !== 200`
OkStatus == 200
\* validateStatus: (status) => status < 500
ValidateLimit == 500

\* an absent (undefined) numeric option
Undefined == -1

\* ------------------------------------------------------------------ values
Url == "https://acct.restlets.api.netsuite.com/x"
Methods == {"GET", "POST"}

\* what the transport (axios + network) can do with one call
Statuses == {200, 201, 304, 404, 503}
TransportEvents ==
    [kind : {"status"}, status : Statuses]
        \cup [kind : {"network", "timeout"}, status : {0}]

\* user middlewares: what the function does with (context, next)
\*   pass        : await next() and return its result
\*   setHeader   : context.config.headers = {...headers, 'X-Auth-Token': t}; return next()
\*   shortReturn : return a response of its own without calling next()
\*   shortThrow  : throw without calling next()
MwKinds == {"pass", "setHeader", "shortReturn", "shortThrow"}

NoBody == <<>>
BodyOf(status) == <<"body", status>>
MwBody(id) == <<"mw", id>>

\* header maps: functions from header names to values
NoHeaders == [k \in {} |-> <<>>]
Merge(a, b) ==
    [k \in (DOMAIN a) \cup (DOMAIN b) |-> IF k \in DOMAIN b THEN b[k] ELSE a[k]]
CustomHeaders == [k \in {"X-Custom-Header"} |-> <<"value">>]
TokenHeader == [k \in {"X-Auth-Token"} |-> <<"token">>]

\* a value travelling back through the chain: a response or a thrown failure
NoValue ==
    [t |-> "none", status |-> 0, code |-> "", data |-> NoBody,
     respStatus |-> 0, from |-> 0]
Response(status, data, from) ==
    [t |-> "response", status |-> status, code |-> "", data |-> data,
     respStatus |-> 0, from |-> from]
AxiosError(code, respStatus) ==
    [t |-> "AxiosError", status |-> 0, code |-> code, data |-> NoBody,
     respStatus |-> respStatus, from |-> 0]
PlainError(id) ==
    [t |-> "Error", status |-> 0, code |-> "", data |-> NoBody,
     respStatus |-> 0, from |-> id]
NotAFunction ==
    [t |-> "TypeError", status |-> 0, code |-> "", data |-> NoBody,
     respStatus |-> 0, from |-> 0]
\* new NetSuiteError(message, status, code, details, response)
NetSuiteError(status, code, details, response) ==
    [t |-> "NetSuiteError", status |-> status, code |-> code, data |-> details,
     respStatus |-> response.status, from |-> response.from]

\* ---------------------------------------------------------- pure functions
\* axios.create({ validateStatus: (status) => status < 500 })
ValidateStatus(status) == status < ValidateLimit

\* this.axiosInstance(requestConfig): resolves with the response when
\* validateStatus accepts its status, rejects with an AxiosError otherwise
Transport(e) ==
    CASE e.kind = "status" ->
            IF ValidateStatus(e.status)
            THEN Response(e.status, BodyOf(e.status), 0)
            ELSE AxiosError("ERR_BAD_RESPONSE", e.status)
      [] e.kind = "network" -> AxiosError("ERR_NETWORK", 0)
      [] e.kind = "timeout" -> AxiosError("ECONNABORTED", 0)

\* makeRequest: if (response.status !== 200) throw new NetSuiteError(...)
IsSuccess(response) == response.status = OkStatus

CheckStatus(response) ==
    IF IsSuccess(response)
    THEN response
    ELSE NetSuiteError(response.status, "HTTP_ERROR", response.data, response)

\* a shouldRetry that lets every failure be retried
ShouldRetryAlways(error) == TRUE

\* retryOptions.shouldRetry: no retry when error.response.status is 4xx
ShouldRetry(error) == ~(error.respStatus >= 400 /\ error.respStatus < 500)

\* constructor: { timeout: 15000, retries: 3, ...config }
MergeConfig(cfgRetries) ==
    [retries |-> IF cfgRetries = Undefined THEN DefaultRetries ELSE cfgRetries]

\* const { retries = this.config.retries } = options
RetriesOf(opts, cfg) ==
    IF opts.retries = Undefined THEN cfg.retries ELSE opts.retries

\* retries: retries || 3
RetryLimit(retries) ==
    IF retries = 0 \/ retries = Undefined THEN FallbackRetries ELSE retries

\* generateAuthHeader(url, method): the signer's header for (url, method)
GenerateAuthHeader(url, method) ==
    [k \in {"Authorization"} |-> <<"OAuth", url, method>>]

\* axiosConfig is a partial AxiosRequestConfig: a map from the keys it sets
\* (here at most "headers") to their values; the default {} sets none
NoAxiosConfig == [k \in {} |-> NoHeaders]

\* requestConfig = { method, url, headers: {...authHeader, ...headers},
\*                   ...axiosConfig, metadata: {} }, data for POST/PUT/PATCH
BuildRequestConfig(opts, auth) ==
    [method |-> opts.method,
     url |-> opts.url,
     headers |->
        Merge([k \in {"headers"} |-> Merge(auth, opts.headers)],
              opts.axiosConfig)["headers"],
     data |-> IF opts.body # NoBody /\ opts.method \in {"POST", "PUT", "PATCH"}
              THEN opts.body ELSE NoBody]

\* the request options tried
RetriesChoices == {Undefined} \cup (0 .. MaxRetries)
OptionShapes ==
    { [url |-> Url, method |-> "GET", body |-> NoBody,
       headers |-> NoHeaders, axiosConfig |-> NoAxiosConfig],
      [url |-> Url, method |-> "POST", body |-> <<"payload">>,
       headers |-> CustomHeaders, axiosConfig |-> NoAxiosConfig] }
RequestOptionsSet ==
    { [url |-> s.url, method |-> s.method, body |-> s.body,
       headers |-> s.headers, axiosConfig |-> s.axiosConfig, retries |-> r] :
      s \in OptionShapes, r \in RetriesChoices }
NoOptions ==
    [url |-> "", method |-> "GET", body |-> NoBody, headers |-> NoHeaders,
     axiosConfig |-> NoAxiosConfig, retries |-> Undefined]
NoRequestConfig ==
    [method |-> "GET", url |-> "", headers |-> NoHeaders, data |-> NoBody]

\* ------------------------------------------------------------------- state
VARIABLES
    pRetry,         \* module variable: "undefined" until import('p-retry') resolves
    config,         \* this.config (merged with the defaults)
    middlewares,    \* this.middlewares: sequence of [id, kind]
    pc,             \* where the one request() in flight stands
    options,        \* the caller's options object (context.config)
    authHeader,     \* generateAuthHeader(url, method)
    requestConfig,  \* the AxiosRequestConfig built once per request()
    retryOptions,   \* the options handed to pRetry
    snapshot,       \* this.middlewares as it was when request() was called
    attemptNumber,  \* how many times pRetry has invoked makeRequest
    index,          \* index of the middleware now running its pre-next code
    stack,          \* middlewares entered in this pass that have not returned
    log,            \* this pass: <<"enter", id>>, <<"terminal", 0>>, <<"exit", id>>
    ret,            \* the response or failure travelling back out of the chain
    calls,          \* transport calls issued for this request
    sent,           \* headers of the last transport call issued
    lastReply,      \* what the transport did with the last call
    allTransient,   \* every transport call so far failed with 5xx/network/timeout
    entered,        \* per middleware id: times entered during this request
    outcome,        \* what request() gave its caller
    logging         \* this.logger given, config.enablePerformanceLogging, a
                    \*   logger method was called during this request, and
                    \*   whether the client built from the same arguments but
                    \*   the other choice of logger has taken the same steps

vars ==
    <<pRetry, config, middlewares, pc, options, authHeader, requestConfig,
      retryOptions, snapshot, attemptNumber, index, stack, log, ret, calls,
      sent, lastReply, allTransient, entered, outcome, logging>>

NoReply == [kind |-> "none", status |-> 0]
NoEntered == [i \in 1 .. MaxMiddlewares |-> 0]

\* ------------------------------------------------------------- the logger
\* new NetSuiteClient(config) with enablePerformanceLogging left at false
NoLogging ==
    [logger |-> FALSE, perf |-> FALSE, called |-> FALSE, same |-> TRUE]

\* the constructor arguments tried: a logger and no flag, the flag and no
\* logger; their twins are the two other combinations
LoggingChoices ==
    { [logger |-> l, perf |-> ~l, called |-> FALSE, same |-> TRUE] :
      l \in BOOLEAN }

\* the client built from the same arguments but the other choice of logger
Twin(lg) == [lg EXCEPT !.logger = ~@]

\* what a read of a method on an undefined logger raises
LoggerTypeError ==
    [t |-> "TypeError", status |-> 0, code |-> "logger", data |-> NoBody,
     respStatus |-> 0, from |-> 0]

\* a logger method called on this.logger without a guard
CallLoggerUnguarded(l) == IF l THEN "ok" ELSE "TypeError"

\* this.logger?.warn(...), if (this.logger) { this.logger.debug(...) }: the
\* method runs and returns when a logger was given, nothing happens otherwise
CallLogger(l) == "ok"

\* if (this.config.enablePerformanceLogging || logger) this.setupInterceptors()
InterceptorsInstalled(lg) == lg.perf \/ lg.logger

\* this.axiosInstance(requestConfig) with the interceptors of
\* setupInterceptors around the transport: they log and hand on the config,
\* the response or the rejection unchanged
AxiosInstance(e, lg) ==
    IF InterceptorsInstalled(lg) /\ CallLogger(lg.logger) # "ok"
    THEN LoggerTypeError
    ELSE Transport(e)

\* retryOptions.onFailedAttempt: this.logger?.warn(...); what pRetry goes on
\* with after calling it for `error`
OnFailedAttempt(error, lg) ==
    IF CallLogger(lg.logger) = "ok" THEN error ELSE LoggerTypeError

\* measurePerformance(operation, fn) once fn() has settled with `result`:
\* info when enablePerformanceLogging, error in the catch, then the result is
\* returned or the error rethrown
MeasurePerformance(result, lg) ==
    IF result.t = "response"
    THEN IF lg.perf /\ CallLogger(lg.logger) # "ok"
         THEN LoggerTypeError
         ELSE result
    ELSE IF CallLogger(lg.logger) = "ok" THEN result ELSE LoggerTypeError

\* ------------------------------------------------- utilities: their state
\* The utilities of utils.ts are independent of the client; each has its own
\* specification below and stays idle under Spec.
VARIABLES
    rwOptions,      \* retryWithBackoff: the options argument of the running call
    rwPc,           \* retryWithBackoff: "idle", "calling" (awaiting fn()),
                    \*   "sleeping" (awaiting the delay), "returned", "thrown"
    attempt,        \* retryWithBackoff: the loop variable
    lastError,      \* retryWithBackoff: let lastError
    rwTrace,        \* retryWithBackoff: <<"call", n>>, <<"fail", n>>, <<"ok", n>>,
                    \*   <<"onRetry", a>>, <<"sleep", delay>> in program order
    rwResult        \* retryWithBackoff: what the call gave its caller

retryVars == <<rwOptions, rwPc, attempt, lastError, rwTrace, rwResult>>

VARIABLES
    batchSize,      \* RequestBatcher: this.batchSize
    batchDelay,     \* RequestBatcher: this.batchDelay
    batch,          \* RequestBatcher: this.batch, entries [id, key]; id names the
                    \*   entry's resolve/reject pair
    batchTimeout,   \* RequestBatcher: this.batchTimeout, a timer handle or Undefined
    timers,         \* RequestBatcher: setTimeout callbacks not yet run or cleared:
                    \*   [h: the handle, delay, during: the add() that armed it]
    flights,        \* RequestBatcher: processBatch() calls awaiting the processor
    promises,       \* RequestBatcher: per add() call, the promise it returned
    addLog,         \* RequestBatcher: per add() call: key, queue length right
                    \*   after the push
    processorCalls  \* RequestBatcher: per batchProcessor call: keys, entry ids,
                    \*   the add() it ran in (0: a timer callback), the timer
                    \*   whose callback it ran in (0: none), its outcome

batcherVars ==
    <<batchSize, batchDelay, batch, batchTimeout, timers, flights, promises,
      addLog, processorCalls>>

VARIABLES
    now,            \* Date.now(), in ticks
    maxRequests,    \* RateLimiter: this.maxRequests
    windowMs,       \* RateLimiter: this.windowMs
    requests,       \* RateLimiter: this.requests
    recorded,       \* RateLimiter: every timestamp recordRequest() ever pushed
    lastCall,       \* RateLimiter: the last method called, when, and its result
    followed        \* RateLimiter: every recordRequest() so far came right after
                    \*   a canMakeRequest() that answered true

limiterVars == <<now, maxRequests, windowMs, requests, recorded, lastCall, followed>>

VARIABLES
    cacheNow,       \* ResponseCache: Date.now(), in milliseconds
    cache,          \* ResponseCache: this.cache, per key an entry or NoEntry
    lastSet,        \* ResponseCache: per key, the latest set(): when, ttl, data,
                    \*   what get() would have found just before, how many so far
    cacheCall       \* ResponseCache: the last method called, when, and its result

cacheVars == <<cacheNow, cache, lastSet, cacheCall>>

VARIABLES
    vcConfig,       \* validateConfig: the config argument
    vcPc,           \* validateConfig: "idle" or "returned"
    errors          \* validateConfig: const errors, as returned

validateVars == <<vcConfig, vcPc, errors>>
VARIABLES
    ceError,        \* createError: the error argument
    cePc,           \* createError: "idle" or "returned"
    ceResult        \* createError: the NetSuiteError returned

createErrorVars == <<ceError, cePc, ceResult>>

utilVars == <<retryVars, batcherVars, limiterVars, cacheVars, validateVars, createErrorVars>>

allVars == <<vars, utilVars>>

\* What each utility leaves alone.
notRetryVars == <<vars, batcherVars, limiterVars, cacheVars, validateVars, createErrorVars>>
notBatcherVars == <<vars, retryVars, limiterVars, cacheVars, validateVars, createErrorVars>>
notLimiterVars == <<vars, retryVars, batcherVars, cacheVars, validateVars, createErrorVars>>
notCacheVars == <<vars, retryVars, batcherVars, limiterVars, validateVars, createErrorVars>>
notValidateVars == <<vars, retryVars, batcherVars, limiterVars, cacheVars, createErrorVars>>
notCreateErrorVars == <<vars, retryVars, batcherVars, limiterVars, cacheVars, validateVars>>

\* ---------------------------------------- retryWithBackoff: values, inputs
\* Largest maxRetries passed explicitly.
MaxBackoffRetries == 2

\* maxRetries = 3
DefaultMaxRetries == 3
\* initialDelay = 1000
DefaultInitialDelay == 1000
\* maxDelay = 30000
DefaultMaxDelay == 30000
\* factor = 2
DefaultFactor == 2

\* What fn() settles with on its n-th invocation.
FnValue(n) == <<"value", n>>
FnError(n) == <<"error", n>>
NoError == <<"undefined">>
NoRwResult == [t |-> "none", data |-> NoError]

\* options: every field optional.  shouldRetry is not a declared field; a
\* JavaScript caller can pass it all the same ("rejectAll" is a predicate that
\* answers false for every failure).  onRetry, when given, returns normally.
DelayShapes ==
    { [initialDelay |-> Undefined, maxDelay |-> Undefined, factor |-> Undefined],
      [initialDelay |-> 1000, maxDelay |-> 3000, factor |-> 2],
      [initialDelay |-> 100, maxDelay |-> Undefined, factor |-> 3] }
BackoffOptionsSet ==
    { [maxRetries |-> m, initialDelay |-> d.initialDelay, maxDelay |-> d.maxDelay,
       factor |-> d.factor, onRetry |-> r, shouldRetry |-> p] :
        m \in {Undefined} \cup (0 .. MaxBackoffRetries),
        d \in DelayShapes,
        r \in {"undefined", "observer"},
        p \in {"undefined", "rejectAll"} }
NoBackoffOptions ==
    [maxRetries |-> Undefined, initialDelay |-> Undefined, maxDelay |-> Undefined,
     factor |-> Undefined, onRetry |-> "undefined", shouldRetry |-> "undefined"]

\* maxRetries || 3: a default that also replaces 0.
DestructureFalsy(o) ==
    [maxRetries |-> IF o.maxRetries = Undefined \/ o.maxRetries = 0
                    THEN DefaultMaxRetries ELSE o.maxRetries,
     initialDelay |-> IF o.initialDelay = Undefined THEN DefaultInitialDelay
                      ELSE o.initialDelay,
     maxDelay |-> IF o.maxDelay = Undefined THEN DefaultMaxDelay ELSE o.maxDelay,
     factor |-> IF o.factor = Undefined THEN DefaultFactor ELSE o.factor,
     onRetry |-> o.onRetry]

\* const { maxRetries = 3, initialDelay = 1000, maxDelay = 30000, factor = 2,
\*         onRetry } = options: a default replaces undefined only.
Destructure(o) ==
    [maxRetries |-> IF o.maxRetries = Undefined THEN DefaultMaxRetries ELSE o.maxRetries,
     initialDelay |-> IF o.initialDelay = Undefined THEN DefaultInitialDelay
                      ELSE o.initialDelay,
     maxDelay |-> IF o.maxDelay = Undefined THEN DefaultMaxDelay ELSE o.maxDelay,
     factor |-> IF o.factor = Undefined THEN DefaultFactor ELSE o.factor,
     onRetry |-> o.onRetry]

\* Math.pow(factor, attempt)
RECURSIVE Pow(_, _)
Pow(b, e) == IF e = 0 THEN 1 ELSE b * Pow(b, e - 1)

\* Math.min(a, b)
Min(a, b) == IF a < b THEN a ELSE b

\* a delay that grows without the cap of maxDelay
DelayUncapped(o, a) == o.initialDelay * Pow(o.factor, a)

\* const delay = Math.min(initialDelay * Math.pow(factor, attempt), maxDelay)
Delay(o, a) == Min(o.initialDelay * Pow(o.factor, a), o.maxDelay)

RetryIdle ==
    /\ rwOptions = NoBackoffOptions
    /\ rwPc = "idle"
    /\ attempt = 0
    /\ lastError = NoError
    /\ rwTrace = <<>>
    /\ rwResult = NoRwResult

\* ------------------------------------------ RequestBatcher: values, inputs
\* add() calls in one run.
MaxAdds == 3
\* Largest batchSize a batcher is constructed with.
MaxBatchSize == 3
\* batchDelay: number = 50
DefaultBatchDelay == 50

Keys == {"a", "b"}

\* What a Map can hold for a key; Absent marks a key the Map does not have.
Absent == <<"absent">>
UndefinedValue == <<"undefined">>
NullValue == <<"null">>
ItemOf(key) == <<"item", key>>
MappedValues == {UndefinedValue, NullValue} \cup {ItemOf(k) : k \in Keys}
Mappings ==
    {r \in [Keys -> {Absent} \cup MappedValues] :
        \A k \in Keys : r[k] \in {Absent, UndefinedValue, NullValue, ItemOf(k)}}
NoMapping == [k \in Keys |-> Absent]

\* new Error(`No result for key: ${key}`)
NoResultError(key) == <<"Error", "No result for key: ", key>>
\* What the n-th batchProcessor call throws or rejects with.
ProcessorError(n) == <<"processorError", n>>

\* Promise states.
NoPromise == [st |-> "none", val |-> <<>>]
Pending == [st |-> "pending", val |-> <<>>]
Resolved(v) == [st |-> "resolved", val |-> v]
Rejected(e) == [st |-> "rejected", val |-> e]
\* resolve()/reject() on a promise that is already settled does nothing.
Settle(p, s) == IF p.st = "pending" THEN s ELSE p

BatcherIdle ==
    /\ batchSize = 1
    /\ batchDelay = DefaultBatchDelay
    /\ batch = <<>>
    /\ batchTimeout = Undefined
    /\ timers = {}
    /\ flights = {}
    /\ promises = [i \in 1 .. MaxAdds |-> NoPromise]
    /\ addLog = <<>>
    /\ processorCalls = <<>>

\* ----------------------------------------------- RateLimiter: values, inputs
\* Largest maxRequests a limiter is constructed with.
MaxLimit == 2
\* Largest windowMs, in ticks.
MaxWindow == 2
\* recordRequest() calls in one run.
MaxRecords == 3
\* The clock stops here.
MaxTime == 4

\* Math.min() of no arguments
Infinity == 1000000

NoCall == [op |-> "none", at |-> 0, ok |-> FALSE, n |-> 0]

LimiterIdle ==
    /\ now = 0
    /\ maxRequests = 1
    /\ windowMs = 1
    /\ requests = <<>>
    /\ recorded = <<>>
    /\ lastCall = NoCall
    /\ followed = TRUE

\* --------------------------------------------- ResponseCache: values, inputs
\* Largest ttl passed to set(), in seconds.
MaxTtl == 1
\* set() calls in one run.
MaxSets == 2
\* Clock ticks in one run.
MaxCacheTicks == 3

\* ttl * 1000
MsPerSecond == 1000
\* The clock advances by half a second.
TickMs == MsPerSecond \div 2

CacheData == {"v1", "v2"}
\* get() answers null for a miss.
Null == "null"

NoEntry == [has |-> FALSE, data |-> Null, expiry |-> 0]
NoSet == [n |-> 0, at |-> 0, ttl |-> 0, data |-> Null, before |-> Null]
NoCacheCall == [op |-> "none", key |-> "", at |-> 0, data |-> Null]

CacheIdle ==
    /\ cacheNow = 0
    /\ cache = [k \in Keys |-> NoEntry]
    /\ lastSet = [k \in Keys |-> NoSet]
    /\ cacheCall = NoCacheCall

\* -------------------------------------------- validateConfig: values, inputs
\* A field is left out, given as the empty string, or given.
FieldValues == {"undefined", "", "value"}
OAuthFields == {"consumerKey", "consumerSecret", "tokenKey", "tokenSecret", "realm"}
\* The fields in the order validateConfig looks at them.
OAuthFieldOrder == <<"consumerKey", "consumerSecret", "tokenKey", "tokenSecret", "realm">>
NoOAuth == [f \in OAuthFields |-> "undefined"]

\* config objects: oauth left out or an object with any of its fields.
ConfigShapes ==
    { [hasOAuth |-> h, oauth |-> o, accountId |-> a] :
        h \in BOOLEAN, o \in [OAuthFields -> FieldValues], a \in FieldValues } \
    { c \in [hasOAuth : {FALSE}, oauth : [OAuthFields -> FieldValues],
             accountId : FieldValues] : c.oauth # NoOAuth }
NoConfig == [hasOAuth |-> FALSE, oauth |-> NoOAuth, accountId |-> "undefined"]

ValidateIdle ==
    /\ vcConfig = NoConfig
    /\ vcPc = "idle"
    /\ errors = <<>>

\* ------------------------------------------------ createError: values, inputs
\* status and code of the timeout branch, status of the fallback branch
TimeoutStatus == 504
UnknownStatus == 500

\* a response body: left out, null, a string, or an object that may carry
\* detail and 'o:errorCode'
BodyShapes ==
    [kind : {"undefined", "null", "string"}, detail : {"undefined"},
     errorCode : {"undefined"}]
        \cup [kind : {"object"}, detail : {"undefined", "", "Invalid login"},
              errorCode : {"undefined", "INVALID_LOGIN"}]
NoData == [kind |-> "undefined", detail |-> "undefined", errorCode |-> "undefined"]
NoResponse == [has |-> FALSE, status |-> 0, data |-> NoData]
ResponseShapes ==
    {NoResponse} \cup [has : {TRUE}, status : {401, 404, 503, 504}, data : BodyShapes]

\* the failures handed to createError: objects (and primitives, which read
\* as objects without any of the three properties)
ErrorShapes ==
    [code : {"undefined", "ECONNABORTED", "ETIMEDOUT", "ERR_NETWORK", "ERR_BAD_RESPONSE"},
     response : ResponseShapes,
     message : {"undefined", "", "Network Error"}]
NoErrorArg == [code |-> "undefined", response |-> NoResponse, message |-> "undefined"]
NoCreated ==
    [t |-> "none", message |-> "", status |-> 0, code |-> "undefined",
     details |-> NoData, response |-> NoResponse]

CreateErrorIdle ==
    /\ ceError = NoErrorArg
    /\ cePc = "idle"
    /\ ceResult = NoCreated

UtilIdle == RetryIdle /\ BatcherIdle /\ LimiterIdle /\ CacheIdle /\ ValidateIdle /\ CreateErrorIdle

\* the client after construction, its logger and configuration left open
ClientStart ==
    /\ pRetry = "undefined"
    /\ middlewares = <<>>
    /\ pc = "idle"
    /\ options = NoOptions
    /\ authHeader = NoHeaders
    /\ requestConfig = NoRequestConfig
    /\ retryOptions = [retries |-> 0]
    /\ snapshot = <<>>
    /\ attemptNumber = 0
    /\ index = 0
    /\ stack = <<>>
    /\ log = <<>>
    /\ ret = NoValue
    /\ calls = 0
    /\ sent = NoHeaders
    /\ lastReply = NoReply
    /\ allTransient = TRUE
    /\ entered = NoEntered
    /\ outcome = NoValue

ClientInit ==
    /\ ClientStart
    /\ config \in { MergeConfig(c) : c \in RetriesChoices }
    /\ logging = NoLogging

Init == ClientInit /\ UtilIdle

\* ----------------------------------------------------------------- actions
\* import('p-retry').then((module) => { pRetry = module; })
LoadPRetry ==
    /\ pRetry = "undefined"
    /\ UNCHANGED utilVars
    /\ UNCHANGED logging
    /\ pRetry' = "loaded"
    /\ UNCHANGED <<config, middlewares, pc, options, authHeader, requestConfig,
                   retryOptions, snapshot, attemptNumber, index, stack, log,
                   ret, calls, sent, lastReply, allTransient, entered, outcome>>

\* use(middleware): this.middlewares.push(middleware); callable at any time,
\* also from a middleware or while a transport call or a backoff is pending
\* unshift instead of push: the new middleware goes to the front
Unshift(list, kind) == <<[id |-> Len(list) + 1, kind |-> kind]>> \o list

Push(list, kind) == Append(list, [id |-> Len(list) + 1, kind |-> kind])

Use(kind) ==
    /\ Len(middlewares) < MaxMiddlewares
    /\ UNCHANGED utilVars
    /\ UNCHANGED logging
    /\ middlewares' = Push(middlewares, kind)
    /\ UNCHANGED <<pRetry, config, pc, options, authHeader, requestConfig,
                   retryOptions, snapshot, attemptNumber, index, stack, log,
                   ret, calls, sent, lastReply, allTransient, entered, outcome>>

\* a chain built from the list captured when request() was called
ChainListCaptured(captured) == captured

\* the list executeMiddlewares walks: this.middlewares, read at every step
\* (`captured` is the list as it was when request() was called)
ChainList(captured) == middlewares

\* executeMiddlewares(context, i, finalHandler), up to the point where the
\* middleware it invokes is running (or the transport call is issued):
\* i >= length: finalHandler() = this.axiosInstance(requestConfig);
\* otherwise this.middlewares[i] is invoked with a next() bound to i + 1
ExecuteMiddlewares(list, i, st, lg, rc) ==
    IF i >= Len(list)
    THEN /\ pc' = "transport"
         /\ calls' = calls + 1
         /\ sent' = rc.headers
         /\ log' = Append(lg, <<"terminal", 0>>)
         /\ stack' = st
         /\ index' = i
         /\ entered' = entered
    ELSE /\ pc' = "chain"
         /\ index' = i
         /\ stack' = Append(st, list[i + 1])
         /\ log' = Append(lg, <<"enter", list[i + 1].id>>)
         /\ entered' = [entered EXCEPT ![list[i + 1].id] = @ + 1]
         /\ UNCHANGED <<calls, sent>>

\* request(options) up to its first suspension: sign, build requestConfig and
\* retryOptions, then measurePerformance(() => pRetry(makeRequest, ...)):
\* with pRetry still undefined the call throws a TypeError, which
\* measurePerformance rethrows; otherwise pRetry starts attempt 1 of
\* makeRequest, which starts the chain at index 0
Request(o) ==
    /\ pc = "idle"
    /\ UNCHANGED utilVars
    /\ options' = o
    /\ authHeader' = GenerateAuthHeader(o.url, o.method)
    /\ requestConfig' = BuildRequestConfig(o, GenerateAuthHeader(o.url, o.method))
    /\ retryOptions' = [retries |-> RetryLimit(RetriesOf(o, config))]
    /\ snapshot' = middlewares
    /\ ret' = NoValue
    /\ IF pRetry = "undefined"
       THEN /\ pc' = "done"
            /\ outcome' = MeasurePerformance(NotAFunction, logging)
            /\ logging' =
                  [logging EXCEPT
                      !.called = logging.logger,
                      !.same = @ /\ MeasurePerformance(NotAFunction, logging)
                                    = MeasurePerformance(NotAFunction, Twin(logging))]
            /\ attemptNumber' = 0
            /\ UNCHANGED <<index, stack, log, calls, sent, entered>>
       ELSE /\ attemptNumber' = 1
            /\ outcome' = NoValue
            /\ UNCHANGED logging
            /\ ExecuteMiddlewares(
                   ChainList(middlewares), 0, <<>>, <<>>,
                   BuildRequestConfig(o, GenerateAuthHeader(o.url, o.method)))
    /\ UNCHANGED <<pRetry, config, middlewares, lastReply, allTransient>>

\* a chain that goes on to the next link whatever the middleware did
RunMiddlewareAlwaysNext ==
    /\ pc = "chain"
    /\ UNCHANGED utilVars
    /\ UNCHANGED logging
    /\ ExecuteMiddlewares(ChainList(snapshot), index + 1, stack, log, requestConfig)
    /\ UNCHANGED <<pRetry, config, middlewares, options, ret, authHeader,
                   requestConfig, retryOptions, snapshot, attemptNumber,
                   lastReply, allTransient, outcome>>

\* the middleware at `index` runs its code before next(): a pass-through
\* calls next(); the README's header middleware replaces
\* context.config.headers and calls next(); a short-circuiting one returns a
\* response or throws without calling next()
RunMiddleware ==
    /\ pc = "chain"
    /\ UNCHANGED utilVars
    /\ UNCHANGED logging
    /\ LET mw == stack[Len(stack)] IN
       CASE mw.kind = "pass" ->
               /\ ExecuteMiddlewares(ChainList(snapshot), index + 1, stack, log,
                                     requestConfig)
               /\ UNCHANGED <<options, ret>>
         [] mw.kind = "setHeader" ->
               /\ options' =
                     [options EXCEPT !.headers = Merge(@, TokenHeader)]
               /\ ExecuteMiddlewares(ChainList(snapshot), index + 1, stack, log,
                                     requestConfig)
               /\ UNCHANGED ret
         [] mw.kind = "shortReturn" ->
               /\ ret' = Response(OkStatus, MwBody(mw.id), mw.id)
               /\ pc' = "unwind"
               /\ stack' = SubSeq(stack, 1, Len(stack) - 1)
               /\ UNCHANGED <<options, index, log, calls, sent, entered>>
         [] mw.kind = "shortThrow" ->
               /\ ret' = PlainError(mw.id)
               /\ pc' = "unwind"
               /\ stack' = SubSeq(stack, 1, Len(stack) - 1)
               /\ UNCHANGED <<options, index, log, calls, sent, entered>>
    /\ UNCHANGED <<pRetry, config, middlewares, authHeader, requestConfig,
                   retryOptions, snapshot, attemptNumber, lastReply,
                   allTransient, outcome>>

IsTransient(e) ==
    e.kind \in {"network", "timeout"} \/ (e.kind = "status" /\ e.status >= 500)

\* the transport call settles: the response, or the AxiosError axios raises
TransportReply(e) ==
    /\ pc = "transport"
    /\ UNCHANGED utilVars
    /\ ret' = AxiosInstance(e, logging)
    /\ logging' =
          [logging EXCEPT
              !.called = @ \/ logging.logger,
              !.same = @ /\ AxiosInstance(e, logging) = AxiosInstance(e, Twin(logging))]
    /\ lastReply' = e
    /\ allTransient' = (allTransient /\ IsTransient(e))
    /\ pc' = "unwind"
    /\ UNCHANGED <<pRetry, config, middlewares, options, authHeader,
                   requestConfig, retryOptions, snapshot, attemptNumber, index,
                   stack, log, calls, sent, entered, outcome>>

\* `await next()` returns in the innermost waiting middleware: its code after
\* next() runs when next() gave a response; a failure propagates through it
MiddlewareReturn ==
    /\ pc = "unwind"
    /\ UNCHANGED utilVars
    /\ UNCHANGED logging
    /\ stack # <<>>
    /\ stack' = SubSeq(stack, 1, Len(stack) - 1)
    /\ log' = IF ret.t = "response"
              THEN Append(log, <<"exit", stack[Len(stack)].id>>)
              ELSE log
    /\ UNCHANGED <<pRetry, config, middlewares, pc, options, authHeader,
                   requestConfig, retryOptions, snapshot, attemptNumber, index,
                   ret, calls, sent, lastReply, allTransient, entered, outcome>>

\* pRetry after a failed attempt: shouldRetry(error) false rejects at once;
\* otherwise onFailedAttempt, then another attempt while retries are left
RetryDecision(error) ==
    IF ShouldRetry(error) /\ attemptNumber <= retryOptions.retries
    THEN "backoff"
    ELSE "done"

\* makeRequest has settled with `result`: where pRetry and measurePerformance
\* take the request from there, for a client whose logger state is lg
SettleRequest(result, lg) ==
    LET after == IF result.t # "response" /\ ShouldRetry(result)
                 THEN OnFailedAttempt(result, lg)
                 ELSE result
        to == IF after.t = "response" \/ after = LoggerTypeError
              THEN "done"
              ELSE RetryDecision(after)
    IN  [pc |-> to,
         outcome |-> IF to = "done" THEN MeasurePerformance(after, lg) ELSE outcome]

\* executeMiddlewares has returned to makeRequest: the status check, then
\* pRetry's decision; on success request() returns { data, status, ... }
MakeRequestResume ==
    /\ pc = "unwind"
    /\ UNCHANGED utilVars
    /\ stack = <<>>
    /\ LET result == IF ret.t = "response" THEN CheckStatus(ret) ELSE ret IN
       /\ pc' = SettleRequest(result, logging).pc
       /\ outcome' = SettleRequest(result, logging).outcome
       /\ logging' =
             [logging EXCEPT
                 !.called = @ \/ (logging.logger
                                    /\ (result.t # "response" \/ logging.perf)),
                 !.same = @ /\ SettleRequest(result, logging) = SettleRequest(result, Twin(logging))]
    /\ UNCHANGED <<pRetry, config, middlewares, options, authHeader,
                   requestConfig, retryOptions, snapshot, attemptNumber, index,
                   stack, log, ret, calls, sent, lastReply, allTransient,
                   entered>>

\* a retry that re-issues only the terminal transport call
BackoffElapsedTransportOnly ==
    /\ pc = "backoff"
    /\ UNCHANGED utilVars
    /\ UNCHANGED logging
    /\ attemptNumber' = attemptNumber + 1
    /\ ret' = NoValue
    /\ ExecuteMiddlewares(<<>>, 0, <<>>, <<>>, requestConfig)
    /\ UNCHANGED <<pRetry, config, middlewares, options, authHeader,
                   requestConfig, retryOptions, snapshot, lastReply,
                   allTransient, outcome>>

\* the backoff timer fires: pRetry invokes makeRequest again, which runs the
\* middleware chain from index 0 with the same requestConfig
BackoffElapsed ==
    /\ pc = "backoff"
    /\ UNCHANGED utilVars
    /\ UNCHANGED logging
    /\ attemptNumber' = attemptNumber + 1
    /\ ret' = NoValue
    /\ ExecuteMiddlewares(ChainList(snapshot), 0, <<>>, <<>>, requestConfig)
    /\ UNCHANGED <<pRetry, config, middlewares, options, authHeader,
                   requestConfig, retryOptions, snapshot, lastReply,
                   allTransient, outcome>>

\* the caller has its result; the client is ready for the next request()
Return ==
    /\ pc = "done"
    /\ UNCHANGED utilVars
    /\ pc' = "idle"
    /\ options' = NoOptions
    /\ authHeader' = NoHeaders
    /\ requestConfig' = NoRequestConfig
    /\ retryOptions' = [retries |-> 0]
    /\ snapshot' = <<>>
    /\ attemptNumber' = 0
    /\ index' = 0
    /\ stack' = <<>>
    /\ log' = <<>>
    /\ ret' = NoValue
    /\ calls' = 0
    /\ sent' = NoHeaders
    /\ lastReply' = NoReply
    /\ allTransient' = TRUE
    /\ entered' = NoEntered
    /\ outcome' = NoValue
    /\ logging' = [logging EXCEPT !.called = FALSE]
    /\ UNCHANGED <<pRetry, config, middlewares>>

Next ==
    \/ LoadPRetry
    \/ \E kind \in MwKinds : Use(kind)
    \/ \E o \in RequestOptionsSet : Request(o)
    \/ RunMiddleware
    \/ \E e \in TransportEvents : TransportReply(e)
    \/ MiddlewareReturn
    \/ MakeRequestResume
    \/ BackoffElapsed
    \/ Return

Spec == Init /\ [][Next]_allVars

\* the same client constructed with or without a logger, with or without
\* enablePerformanceLogging, and the default retries
LoggedInit ==
    /\ ClientStart
    /\ config = MergeConfig(Undefined)
    /\ logging \in LoggingChoices
    /\ UtilIdle

SpecLogged == LoggedInit /\ [][Next]_allVars

\* ------------------------------------------------------- claim vocabulary
HasTerminal(lg) == \E i \in 1 .. Len(lg) : lg[i][1] = "terminal"
Is2xx(status) == status >= 200 /\ status <= 299
Is4xx(status) == status >= 400 /\ status <= 499
\* the request in flight (or just finished) got its last reply in this pass
RepliedThisPass == HasTerminal(log) /\ pc \in {"unwind", "backoff", "done"}
\* the number of retries the caller asked for: the per-request value, else
\* the client's configured default
RequestedRetries == RetriesOf(options, config)

\* C1: request() returns a ClientResponse exactly when the transport's
\* response has a 2xx status, and every other status the transport returns
\* without raising becomes a NetSuiteError carrying that status, the code
\* 'HTTP_ERROR' and the response body as details.
C1_ResponseIff2xx ==
    (pc = "done" /\ HasTerminal(log) /\ lastReply.kind = "status"
        /\ ValidateStatus(lastReply.status)) =>
        IF Is2xx(lastReply.status)
        THEN outcome.t = "response" /\ outcome.status = lastReply.status
        ELSE /\ outcome.t = "NetSuiteError"
             /\ outcome.status = lastReply.status
             /\ outcome.code = "HTTP_ERROR"
             /\ outcome.data = BodyOf(lastReply.status)

\* C2: a 5xx response, a network error or a timeout that ends a request()
\* reaches the caller as a NetSuiteError, never as the raw transport failure.
C2_FailuresAreTyped ==
    (pc = "done" /\ HasTerminal(log) /\ IsTransient(lastReply)) =>
        outcome.t = "NetSuiteError"

\* C3: once the transport has answered a request with a 4xx status, no retry
\* is scheduled and no further transport call is made for that request; when
\* the first answer is 4xx the transport was invoked exactly once, whatever
\* retry count is configured.
C3_NoRetryOn4xx ==
    (pc # "idle" /\ lastReply.kind = "status" /\ Is4xx(lastReply.status)) =>
        /\ pc \in {"unwind", "done"}
        /\ attemptNumber = 1 => calls = 1
        /\ pc = "done" => (outcome.t = "NetSuiteError"
                            /\ outcome.status = lastReply.status)

\* C3 witness: a 404 ended a request after one transport call although
\* retries were configured.
C3_Witness ==
    /\ pc = "done"
    /\ lastReply = [kind |-> "status", status |-> 404]
    /\ retryOptions.retries >= 1
    /\ calls = 1
    /\ outcome.t = "NetSuiteError"

\* C4: a request() whose every transport attempt fails with a 5xx status, a
\* network error or a timeout surfaces the failure after exactly retries + 1
\* transport attempts (retries: the per-request value, else the client's
\* default).
C4_AttemptsAreRetriesPlusOne ==
    (pc = "done" /\ allTransient /\ calls >= 1 /\ calls = attemptNumber) =>
        calls = RequestedRetries + 1

\* C5: a per-request `retries` option n >= 0 is the number of retries used:
\* never more than n + 1 attempts, no backoff once n retries were made, and
\* n + 1 transport attempts when every attempt fails transiently; retries = 0
\* gives exactly one attempt.
C5_PerRequestRetriesHonoured ==
    (pc # "idle" /\ options.retries # Undefined) =>
        /\ attemptNumber <= options.retries + 1
        /\ pc = "backoff" => attemptNumber <= options.retries
        /\ (pc = "done" /\ allTransient /\ calls >= 1 /\ calls = attemptNumber)
              => calls = options.retries + 1

NEnters(lg) == Cardinality({i \in 1 .. Len(lg) : lg[i][1] = "enter"})
IsPrefix(a, b) == Len(a) <= Len(b) /\ a = SubSeq(b, 1, Len(a))
KindOf(id) ==
    (CHOOSE m \in {middlewares[i] : i \in 1 .. Len(middlewares)} : m.id = id).kind
\* the log of a full pass through n middlewares registered 1st .. n-th
Onion(n) ==
    [i \in 1 .. (2 * n + 1) |->
        IF i <= n THEN <<"enter", i>>
        ELSE IF i = n + 1 THEN <<"terminal", 0>>
        ELSE <<"exit", 2 * n + 2 - i>>]

\* C6 (as stated): in a request() that reached the transport, every
\* middleware registered when it was called is entered exactly once, however
\* many attempts the retry controller makes.
C6_EnteredOncePerRequest ==
    (pc # "idle" /\ HasTerminal(log)) =>
        \A i \in 1 .. Len(snapshot) : entered[snapshot[i].id] = 1

\* C6 (amended): the retry controller wraps the whole chain, so a middleware
\* is entered once per attempt: never more often than attempts were started,
\* and, whenever a transport call is pending, every middleware registered
\* when request() was called has been entered once in each attempt so far.
C6_EnteredOncePerAttempt ==
    /\ \A id \in 1 .. MaxMiddlewares : entered[id] <= attemptNumber
    /\ pc = "transport" =>
          \A i \in 1 .. Len(snapshot) : entered[snapshot[i].id] = attemptNumber

\* C6 witness: a second attempt is at the transport with a middleware
\* registered before the request, entered twice.
C6_Witness ==
    /\ pc = "transport"
    /\ attemptNumber >= 2
    /\ Len(snapshot) >= 1
    /\ entered[snapshot[1].id] = 2

\* C7: middlewares are entered in registration order, then the terminal
\* transport call runs, then the code after each next() runs in reverse
\* registration order.
C7_OnionOrder ==
    /\ pc = "chain" => log = SubSeq(Onion(index + 1), 1, index + 1)
    /\ HasTerminal(log) => IsPrefix(log, Onion(NEnters(log)))
    /\ (HasTerminal(log) /\ pc = "unwind" /\ stack = <<>> /\ ret.t = "response")
          => (log = Onion(NEnters(log)) /\ NEnters(log) >= Len(snapshot))

\* C7 witness: a full pass through two middlewares has come back out.
C7_Witness ==
    /\ pc = "unwind"
    /\ stack = <<>>
    /\ ret.t = "response"
    /\ log = Onion(2)

\* C8 (as stated): only middlewares registered when request() was called
\* are executed for that request.
C8_OnlyCapturedMiddlewaresRun ==
    pc # "idle" =>
        \A id \in 1 .. MaxMiddlewares : entered[id] > 0 => id <= Len(snapshot)

\* C8 (amended): the chain reads the live list at every step: when a pass
\* issues its transport call, every middleware registered by then, including
\* those added with use() while the request was in flight, has been entered
\* in that pass, in registration order.
C8_ChainReadsLiveList ==
    [][(pc # "transport" /\ pc' = "transport") =>
          log' = Append(SubSeq(Onion(Len(middlewares')), 1, Len(middlewares')),
                        <<"terminal", 0>>)]_vars

\* C8 witness: a transport call is pending in a pass that entered a
\* middleware registered after request() was called.
C8_Witness ==
    /\ pc = "transport"
    /\ \E id \in 1 .. MaxMiddlewares : id > Len(snapshot) /\ entered[id] > 0

\* C9: when a middleware has put X-Auth-Token into context.config.headers
\* before next(), the transport call of that pass carries the header.
C9_HeaderChangeReachesTransport ==
    (pc = "transport"
        /\ \E i \in 1 .. Len(log) :
              log[i][1] = "enter" /\ KindOf(log[i][2]) = "setHeader") =>
        /\ "X-Auth-Token" \in DOMAIN sent
        /\ sent["X-Auth-Token"] = TokenHeader["X-Auth-Token"]

\* what a short-circuiting middleware hands back
ShortValue(mw) ==
    IF mw.kind = "shortReturn"
    THEN Response(OkStatus, MwBody(mw.id), mw.id)
    ELSE PlainError(mw.id)

\* C10: once a middleware that does not call next() has been entered in a
\* pass, no later middleware is entered and no transport call is made in
\* that pass, and what it returned or raised is what travels back through
\* the enclosing middlewares and what request() gives its caller.
C10_ShortCircuit ==
    \A k \in 1 .. Len(log) :
        (log[k][1] = "enter"
            /\ KindOf(log[k][2]) \in {"shortReturn", "shortThrow"}) =>
            /\ \A j \in (k + 1) .. Len(log) : log[j][1] = "exit"
            /\ pc \in {"chain", "unwind", "backoff", "done"}
            /\ pc = "unwind" => ret = ShortValue(middlewares[log[k][2]])
            /\ pc = "done" => outcome = ShortValue(middlewares[log[k][2]])

\* C10 witness: a request ended with the response of a short-circuiting
\* middleware that has an enclosing and a later middleware; no transport
\* call was made.
C10_Witness ==
    /\ pc = "done"
    /\ calls = 0
    /\ outcome.t = "response"
    /\ outcome.from = 1
    /\ Len(snapshot) = 2
    /\ log = <<<<"enter", 1>>>>


\* ============================================================ retryWithBackoff
\* The client variables at rest while a utility is exercised on its own.
ClientIdle == ClientInit /\ config = MergeConfig(Undefined)

NCalls(tr) == Cardinality({i \in 1 .. Len(tr) : tr[i][1] = "call"})

\* if (attempt === maxRetries) throw error; no option is consulted about the
\* failure itself.
GivesUpOnPredicate(a, o, error) ==
    a = Destructure(o).maxRetries \/ o.shouldRetry = "rejectAll"

GivesUp(a, o, error) == a = Destructure(o).maxRetries

\* onRetry(attempt + 1, error)
ObservedAttemptZeroBased(a) == a

ObservedAttempt(a) == a + 1

\* retryWithBackoff(fn, options) up to its first await: the loop is entered
\* with attempt = 0 when 0 <= maxRetries, and fn() is invoked.
RetryWithBackoff(o) ==
    /\ rwPc = "idle"
    /\ rwOptions' = o
    /\ attempt' = 0
    /\ lastError' = NoError
    /\ rwTrace' = <<<<"call", 1>>>>
    /\ rwResult' = NoRwResult
    /\ rwPc' = "calling"
    /\ UNCHANGED notRetryVars

\* fn() settles.  Fulfilled: return await fn().  Rejected: the catch block up
\* to its await (or its throw).
FnSettles(ok) ==
    /\ rwPc = "calling"
    /\ LET n == NCalls(rwTrace)
           o == Destructure(rwOptions)
       IN IF ok
          THEN /\ rwTrace' = Append(rwTrace, <<"ok", n>>)
               /\ rwResult' = [t |-> "returned", data |-> FnValue(n)]
               /\ rwPc' = "returned"
               /\ UNCHANGED lastError
          ELSE /\ lastError' = FnError(n)
               /\ IF GivesUp(attempt, rwOptions, FnError(n))
                  THEN /\ rwTrace' = Append(rwTrace, <<"fail", n>>)
                       /\ rwResult' = [t |-> "thrown", data |-> FnError(n)]
                       /\ rwPc' = "thrown"
                  ELSE /\ rwTrace' = rwTrace \o <<<<"fail", n>>>>
                                      \o (IF o.onRetry = "observer"
                                          THEN <<<<"onRetry", ObservedAttempt(attempt)>>>>
                                          ELSE <<>>)
                                      \o <<<<"sleep", Delay(o, attempt)>>>>
                       /\ rwResult' = rwResult
                       /\ rwPc' = "sleeping"
    /\ UNCHANGED <<rwOptions, attempt>>
    /\ UNCHANGED notRetryVars

\* The delay elapses: attempt++, attempt <= maxRetries holds (the last attempt
\* threw instead of sleeping), fn() is invoked again.
DelayElapsed ==
    /\ rwPc = "sleeping"
    /\ attempt' = attempt + 1
    /\ rwTrace' = Append(rwTrace, <<"call", NCalls(rwTrace) + 1>>)
    /\ rwPc' = "calling"
    /\ UNCHANGED <<rwOptions, lastError, rwResult>>
    /\ UNCHANGED notRetryVars

\* The caller has its answer; the next call starts from scratch.
RetrySettled ==
    /\ rwPc \in {"returned", "thrown"}
    /\ rwOptions' = NoBackoffOptions
    /\ rwPc' = "idle"
    /\ attempt' = 0
    /\ lastError' = NoError
    /\ rwTrace' = <<>>
    /\ rwResult' = NoRwResult
    /\ UNCHANGED notRetryVars

RetryInit == ClientIdle /\ UtilIdle

RetryNext ==
    \/ \E o \in BackoffOptionsSet : RetryWithBackoff(o)
    \/ \E ok \in BOOLEAN : FnSettles(ok)
    \/ DelayElapsed
    \/ RetrySettled

SpecRetry == RetryInit /\ [][RetryNext]_allVars

\* ------------------------------------------------- retryWithBackoff: claims
\* maxRetries as the caller asked for it: the default stands in for undefined.
RequestedMaxRetries ==
    IF rwOptions.maxRetries = Undefined THEN DefaultMaxRetries ELSE rwOptions.maxRetries

\* Index of the (unique) event ev in the trace, 0 if it is not there.
Pos(tr, ev) ==
    IF \E i \in 1 .. Len(tr) : tr[i] = ev
    THEN CHOOSE i \in 1 .. Len(tr) : tr[i] = ev
    ELSE 0

IsOnRetry(ev) == ev[1] = "onRetry"

\* C11: retryWithBackoff never invokes the operation more than maxRetries + 1
\* times, and when it throws, the operation has failed exactly maxRetries + 1
\* times (once when maxRetries is 0) and the failure thrown is the one of the
\* last invocation.
C11_AlwaysFailing ==
    /\ NCalls(rwTrace) <= RequestedMaxRetries + 1
    /\ rwPc = "thrown" =>
        LET n == NCalls(rwTrace) IN
        /\ n = RequestedMaxRetries + 1
        /\ \A i \in 1 .. n : Pos(rwTrace, <<"fail", i>>) # 0
        /\ rwResult = [t |-> "thrown", data |-> FnError(n)]
        /\ lastError = FnError(n)

\* C11 witness: with maxRetries 0 the operation was invoked once and its
\* failure thrown.
C11_Witness ==
    /\ rwPc = "thrown"
    /\ rwOptions.maxRetries = 0
    /\ NCalls(rwTrace) = 1
    /\ rwResult.data = FnError(1)

\* C12: when the k-th invocation succeeds, its value is returned and nothing
\* is invoked after it; the observer has been called k - 1 times, with
\* 1, 2, ..., k - 1 in this order, the call for attempt a after the a-th
\* failure and before invocation a + 1.
C12_SuccessOnKth ==
    rwPc = "returned" =>
        LET k == NCalls(rwTrace) IN
        /\ k <= RequestedMaxRetries + 1
        /\ rwTrace[Len(rwTrace)] = <<"ok", k>>
        /\ \A a \in 1 .. k - 1 : Pos(rwTrace, <<"fail", a>>) # 0
        /\ rwResult = [t |-> "returned", data |-> FnValue(k)]
        /\ rwOptions.onRetry = "observer" =>
            /\ SelectSeq(rwTrace, IsOnRetry) = [a \in 1 .. k - 1 |-> <<"onRetry", a>>]
            /\ \A a \in 1 .. k - 1 :
                /\ Pos(rwTrace, <<"fail", a>>) < Pos(rwTrace, <<"onRetry", a>>)
                /\ Pos(rwTrace, <<"onRetry", a>>) < Pos(rwTrace, <<"call", a + 1>>)

\* C12 witness: two failures, then the third invocation succeeded, with an
\* observer installed.
C12_Witness ==
    /\ rwPc = "returned"
    /\ NCalls(rwTrace) = 3
    /\ rwOptions.onRetry = "observer"
    /\ rwOptions.maxRetries = Undefined

\* C13 as stated: when the caller's predicate rejects a failure, that failure
\* is thrown at once and the operation is not invoked again.
C13_PredicateStopsRetry ==
    (rwOptions.shouldRetry = "rejectAll" /\ Pos(rwTrace, <<"fail", 1>>) # 0) =>
        /\ rwPc = "thrown"
        /\ NCalls(rwTrace) = 1
        /\ rwResult.data = FnError(1)

\* C13 amended: retryWithBackoff consults no predicate.  Whatever the caller
\* passes as one, a failure of an invocation that is not the last
\* (invocation n <= maxRetries) is followed by the observer and the delay,
\* and a throw only comes after maxRetries + 1 invocations.
C13_PredicateIgnored ==
    rwOptions.shouldRetry = "rejectAll" =>
        /\ \A n \in 1 .. RequestedMaxRetries :
            Pos(rwTrace, <<"fail", n>>) # 0 =>
                /\ Pos(rwTrace, <<"fail", n>>) < Len(rwTrace)
                /\ rwTrace[Pos(rwTrace, <<"fail", n>>) + 1][1] \in {"onRetry", "sleep"}
        /\ rwPc = "thrown" => NCalls(rwTrace) = RequestedMaxRetries + 1

\* C13 witness: under a predicate that rejects every failure the operation
\* has failed once and been invoked a second time.
C13_Witness ==
    /\ rwOptions.shouldRetry = "rejectAll"
    /\ Pos(rwTrace, <<"fail", 1>>) # 0
    /\ Pos(rwTrace, <<"call", 2>>) # 0

\* ============================================================== RequestBatcher
\* const keys = currentBatch.map(item => item.key)
DistinctKeysOf(entries) ==
    LET first == {i \in 1 .. Len(entries) :
                    \A j \in 1 .. i - 1 : entries[j].key # entries[i].key}
        F[i \in 0 .. Len(entries)] ==
            IF i = 0 THEN <<>>
            ELSE IF i \in first THEN Append(F[i - 1], entries[i].key) ELSE F[i - 1]
    IN F[Len(entries)]

KeysOf(entries) == [i \in 1 .. Len(entries) |-> entries[i].key]

IdsOf(entries) == [i \in 1 .. Len(entries) |-> entries[i].id]

\* a flush that leaves the pending timer running
ClearTimeoutForgotten(ts, handle) == ts

\* clearTimeout(handle)
ClearTimeout(ts, handle) == {t \in ts : t.h # handle}

\* a flush that copies the entries it takes and leaves them in the queue
SpliceKeepsAll(q, n) == q

\* this.batch.splice(0, n): what stays in the queue
SpliceRest(q, n) == SubSeq(q, n + 1, Len(q))

\* processBatch() up to its await, on the queue q, with ts the timers still
\* pending; by is the add() call it runs in (0: none), timer the handle of the
\* timer whose callback it runs in (0: none).
ProcessBatch(q, ts, by, timer) ==
    LET currentBatch == SubSeq(q, 1, Min(batchSize, Len(q)))
    IN /\ timers' = IF batchTimeout # Undefined THEN ClearTimeout(ts, batchTimeout) ELSE ts
       /\ batchTimeout' = Undefined
       /\ batch' = SpliceRest(q, Len(currentBatch))
       /\ IF currentBatch = <<>>
          THEN UNCHANGED <<flights, processorCalls>>
          ELSE /\ processorCalls' =
                    Append(processorCalls,
                           [keys |-> KeysOf(currentBatch), ids |-> IdsOf(currentBatch),
                            by |-> by, timer |-> timer, outcome |-> "pending",
                            results |-> NoMapping])
               /\ flights' = flights \cup
                    {[n |-> Len(processorCalls) + 1, entries |-> currentBatch]}

\* if (this.batch.length >= this.batchSize)
ReachedBatchSizeStrict(q) == Len(q) > batchSize

ReachedBatchSize(q) == Len(q) >= batchSize

\* else if (!this.batchTimeout) this.batchTimeout = setTimeout(..., batchDelay)
ArmTimerAlways(handle) ==
    /\ batchTimeout' = handle
    /\ timers' = ClearTimeout(timers, batchTimeout) \cup
                    {[h |-> handle, delay |-> batchDelay]}

ArmTimer(handle) ==
    IF batchTimeout = Undefined
    THEN /\ batchTimeout' = handle
         /\ timers' = timers \cup {[h |-> handle, delay |-> batchDelay]}
    ELSE UNCHANGED <<batchTimeout, timers>>

\* add(key)
Add(key) ==
    /\ Len(addLog) < MaxAdds
    /\ LET id == Len(addLog) + 1
           q == Append(batch, [id |-> id, key |-> key])
       IN /\ addLog' = Append(addLog, [key |-> key, queued |-> Len(q)])
          /\ promises' = [promises EXCEPT ![id] = Pending]
          /\ IF ReachedBatchSize(q)
             THEN ProcessBatch(q, timers, id, 0)
             ELSE /\ batch' = q
                  /\ ArmTimer(id)
                  /\ UNCHANGED <<flights, processorCalls>>
    /\ UNCHANGED <<batchSize, batchDelay>>
    /\ UNCHANGED notBatcherVars

\* A timer's delay has elapsed; its callback runs: () => this.processBatch().
\* A timer armed during an add() runs its callback t.delay after that add().
TimerFires ==
    /\ \E t \in timers : ProcessBatch(batch, timers \ {t}, 0, t.h)
    /\ UNCHANGED <<batchSize, batchDelay, promises, addLog>>
    /\ UNCHANGED notBatcherVars

\* currentBatch.forEach(({ reject }) => reject(error))
RejectFirst(ps, entries, error) ==
    [i \in DOMAIN ps |->
        IF entries # <<>> /\ entries[1].id = i THEN Settle(ps[i], Rejected(error))
        ELSE ps[i]]

RejectAll(ps, entries, error) ==
    [i \in DOMAIN ps |->
        IF \E j \in 1 .. Len(entries) : entries[j].id = i
        THEN Settle(ps[i], Rejected(error))
        ELSE ps[i]]

\* currentBatch.forEach(({ key, resolve, reject }) => { const result =
\* results.get(key); if (result !== undefined) resolve(result); else reject(...) })
\* Map.get answers undefined for a key the Map does not have.
Get(results, key) == IF results[key] = Absent THEN UndefinedValue ELSE results[key]

\* a forEach without the else branch: an entry without a result is left alone
DistributeFoundOnly(ps, entries, results) ==
    [i \in DOMAIN ps |->
        IF \E j \in 1 .. Len(entries) :
              entries[j].id = i /\ Get(results, entries[j].key) # UndefinedValue
        THEN LET key == (CHOOSE e \in {entries[j] : j \in 1 .. Len(entries)} :
                            e.id = i).key
             IN Settle(ps[i], Resolved(Get(results, key)))
        ELSE ps[i]]

Distribute(ps, entries, results) ==
    [i \in DOMAIN ps |->
        IF \E j \in 1 .. Len(entries) : entries[j].id = i
        THEN LET key == (CHOOSE e \in {entries[j] : j \in 1 .. Len(entries)} :
                            e.id = i).key
                 result == Get(results, key)
             IN IF result # UndefinedValue
                THEN Settle(ps[i], Resolved(result))
                ELSE Settle(ps[i], Rejected(NoResultError(key)))
        ELSE ps[i]]

\* The processor's promise fulfils with a Map: the try block after the await.
\* Only the keys of the flush are looked up, so the Map is given on these.
ProcessorReturns(f, results) ==
    /\ f \in flights
    /\ \A k \in Keys :
        (\A j \in 1 .. Len(f.entries) : f.entries[j].key # k) => results[k] = Absent
    /\ flights' = flights \ {f}
    /\ promises' = Distribute(promises, f.entries, results)
    /\ processorCalls' = [processorCalls EXCEPT ![f.n].outcome = "returned",
                                                ![f.n].results = results]
    /\ UNCHANGED <<batchSize, batchDelay, batch, batchTimeout, timers, addLog>>
    /\ UNCHANGED notBatcherVars

\* The processor throws or its promise rejects: the catch block.
ProcessorRaises(f) ==
    /\ f \in flights
    /\ flights' = flights \ {f}
    /\ promises' = RejectAll(promises, f.entries, ProcessorError(f.n))
    /\ processorCalls' = [processorCalls EXCEPT ![f.n].outcome = "raised"]
    /\ UNCHANGED <<batchSize, batchDelay, batch, batchTimeout, timers, addLog>>
    /\ UNCHANGED notBatcherVars

\* new RequestBatcher(batchProcessor, batchSize, batchDelay)
BatcherInit ==
    /\ ClientIdle
    /\ CreateErrorIdle
    /\ ValidateIdle
    /\ RetryIdle
    /\ LimiterIdle
    /\ CacheIdle
    /\ batchSize \in 1 .. MaxBatchSize
    /\ batchDelay = DefaultBatchDelay
    /\ batch = <<>>
    /\ batchTimeout = Undefined
    /\ timers = {}
    /\ flights = {}
    /\ promises = [i \in 1 .. MaxAdds |-> NoPromise]
    /\ addLog = <<>>
    /\ processorCalls = <<>>

BatcherNext ==
    \/ \E key \in Keys : Add(key)
    \/ TimerFires
    \/ \E f \in flights, results \in Mappings : ProcessorReturns(f, results)
    \/ \E f \in flights : ProcessorRaises(f)

SpecBatcher == BatcherInit /\ [][BatcherNext]_allVars

\* ----------------------------------------------------- RequestBatcher: claims
Calls == 1 .. Len(processorCalls)
Adds == 1 .. Len(addLog)
InCall(id, c) == \E i \in 1 .. Len(c.ids) : c.ids[i] = id
\* The ids id - n + 1, ..., id: the last n add() calls up to id, in add order.
LastAdds(id, n) == [i \in 1 .. n |-> id - n + i]
AddedKeys(ids) == [i \in 1 .. Len(ids) |-> addLog[ids[i]].key]

\* C14: an add() whose push makes the queue reach batchSize entries runs the
\* flush itself: exactly one processor call is made during that add(), with
\* the batchSize keys pending at that moment, in the order they were added,
\* and the queue is left empty; no other add() calls the processor.
C14_SizeFlushDuringAdd ==
    \A id \in Adds :
        LET during == {n \in Calls : processorCalls[n].by = id} IN
        IF addLog[id].queued = batchSize
        THEN /\ Cardinality(during) = 1
             /\ \A n \in during :
                 /\ processorCalls[n].ids = LastAdds(id, batchSize)
                 /\ processorCalls[n].keys = AddedKeys(LastAdds(id, batchSize))
                 /\ Len(processorCalls[n].keys) = batchSize
             /\ \A i \in 1 .. Len(batch) : batch[i].id > id
        ELSE during = {}

\* C14 witness: a batcher of size 3 has flushed during the third add(), with
\* the keys a, b, b in this order.
C14_Witness ==
    /\ batchSize = 3
    /\ \E n \in Calls :
        /\ processorCalls[n].by = 3
        /\ processorCalls[n].keys = <<"a", "b", "b">>

\* C15: entries pending below batchSize are covered by exactly one timer, the
\* one armed with delay batchDelay during the add() of the first of them;
\* later adds neither arm another timer nor replace it, and no timer is armed
\* while nothing is pending.  A flush run by a timer is one processor call,
\* made by the timer armed for the first of its entries, with fewer than
\* batchSize keys: exactly the entries pending, in add order.
C15_TimerFlush ==
    /\ Cardinality(timers) <= 1
    /\ Len(batch) < batchSize
    /\ (batch # <<>>) <=> (timers # {})
    /\ \A t \in timers :
        /\ t.h = batchTimeout
        /\ t.h = batch[1].id
        /\ t.delay = batchDelay
    /\ \A n \in Calls :
        LET c == processorCalls[n]
            last == c.ids[Len(c.ids)]
        IN /\ c.ids = LastAdds(last, Len(c.ids))
           /\ addLog[c.ids[1]].queued = 1
           /\ last + 1 \in Adds => addLog[last + 1].queued = 1
           /\ c.by = 0 =>
                /\ c.timer = c.ids[1]
                /\ Len(c.ids) < batchSize
                /\ c.keys = AddedKeys(c.ids)
                /\ \A k \in Calls : processorCalls[k].timer = c.timer => k = n

\* C15 witness: two entries added one after the other were flushed together
\* by the timer armed for the first.
C15_Witness ==
    \E n \in Calls :
        /\ processorCalls[n].by = 0
        /\ processorCalls[n].ids = <<1, 2>>
        /\ processorCalls[n].timer = 1

\* C16: when the Map a flush got back lacks one of its keys, the entries with
\* a lacking key are rejected with 'No result for key', and every other entry
\* of the flush is resolved with the value the Map holds for its key.
C16_OnlyMissingReject ==
    \A n \in Calls :
        LET c == processorCalls[n] IN
        (c.outcome = "returned" /\ \E i \in 1 .. Len(c.keys) : c.results[c.keys[i]] = Absent) =>
            \A i \in 1 .. Len(c.ids) :
                promises[c.ids[i]] =
                    IF c.results[c.keys[i]] = Absent
                    THEN Rejected(NoResultError(c.keys[i]))
                    ELSE Resolved(c.results[c.keys[i]])

\* C17: when the processor call of a flush fails, the promises of exactly the
\* entries of that flush are rejected with that failure; entries still queued
\* or in a flush that has not settled stay pending.
C17_ProcessorFailureRejectsFlush ==
    /\ \A n \in Calls :
        processorCalls[n].outcome = "raised" =>
            \A id \in Adds :
                InCall(id, processorCalls[n]) <=> promises[id] = Rejected(ProcessorError(n))
    /\ \A i \in 1 .. Len(batch) : promises[batch[i].id] = Pending
    /\ \A f \in flights : \A i \in 1 .. Len(f.entries) : promises[f.entries[i].id] = Pending

\* C17 witness: a flush of two entries failed and both were rejected, while
\* the entry of another flush was resolved.
C17_Witness ==
    \E n, k \in Calls :
        /\ processorCalls[n].outcome = "raised"
        /\ Len(processorCalls[n].ids) = 2
        /\ processorCalls[k].outcome = "returned"
        /\ \E i \in 1 .. Len(processorCalls[k].ids) :
            promises[processorCalls[k].ids[i]].st = "resolved"

\* C18: an entry whose key the returned Map has is resolved with the value the
\* Map holds for that key, whatever that value is.
C18_PresentKeyResolves ==
    \A n \in Calls :
        LET c == processorCalls[n] IN
        c.outcome = "returned" =>
            \A i \in 1 .. Len(c.ids) :
                c.results[c.keys[i]] # Absent =>
                    promises[c.ids[i]] = Resolved(c.results[c.keys[i]])

\* C19: every add() makes its own entry: the processor gets one key per
\* entry, in add order, a key added twice appearing twice; no entry is in two
\* processor calls; and once the call has settled, each entry's promise has
\* been settled with the outcome for its own key.
C19_DuplicateKeysKeptApart ==
    /\ \A n \in Calls :
        LET c == processorCalls[n] IN
        /\ Len(c.keys) = Len(c.ids)
        /\ c.keys = AddedKeys(c.ids)
        /\ \A i, j \in 1 .. Len(c.ids) : i < j => c.ids[i] < c.ids[j]
        /\ c.outcome # "pending" =>
            \A i \in 1 .. Len(c.ids) :
                promises[c.ids[i]] \in
                    { Resolved(c.results[c.keys[i]]),
                      Rejected(NoResultError(c.keys[i])),
                      Rejected(ProcessorError(n)) }
    /\ \A n, k \in Calls : \A id \in Adds :
        (InCall(id, processorCalls[n]) /\ InCall(id, processorCalls[k])) => n = k

\* C19 witness: key a was added twice while pending; the processor got
\* <<a, a>> and both promises were resolved with a's value.
C19_Witness ==
    \E n \in Calls :
        /\ processorCalls[n].keys = <<"a", "a">>
        /\ processorCalls[n].ids = <<1, 2>>
        /\ promises[1] = Resolved(ItemOf("a"))
        /\ promises[2] = Resolved(ItemOf("a"))

\* ================================================================= RateLimiter
\* time => now - time < this.windowMs
InWindowInclusive(time, t) == t - time <= windowMs

InWindow(time, t) == t - time < windowMs

\* a check that keeps every timestamp
PruneNothing(rs, t) == rs

\* this.requests.filter(time => now - time < this.windowMs)
Prune(rs, t) == SelectSeq(rs, LAMBDA time : InWindow(time, t))

\* the newest timestamp in place of the oldest
NewestOf(rs) ==
    IF rs = <<>> THEN Infinity
    ELSE CHOOSE m \in {rs[i] : i \in 1 .. Len(rs)} :
            \A i \in 1 .. Len(rs) : m >= rs[i]

\* Math.min(...this.requests)
MinOf(rs) ==
    IF rs = <<>> THEN Infinity
    ELSE CHOOSE m \in {rs[i] : i \in 1 .. Len(rs)} :
            \A i \in 1 .. Len(rs) : m <= rs[i]

\* the difference handed on without the floor of 0
Unclamped(x) == x

\* Math.max(0, x)
Max0(x) == IF x > 0 THEN x ELSE 0

\* return this.requests.length < this.maxRequests
BelowLimitInclusive(n) == n <= maxRequests

BelowLimit(n) == n < maxRequests

\* getTimeUntilNextRequest() on the pruned list rs at time t:
\* if (this.canMakeRequest()) return 0; const oldestRequest = Math.min(...);
\* return Math.max(0, this.windowMs - (Date.now() - oldestRequest))
TimeUntilNextNoShortcut(rs, t) ==
    IF rs = <<>> THEN Infinity ELSE Max0(windowMs - (t - MinOf(rs)))

TimeUntilNext(rs, t) ==
    IF BelowLimit(Len(rs)) THEN 0
    ELSE IF rs = <<>> THEN Infinity
    ELSE Max0(windowMs - (t - MinOf(rs)))

\* Time passes.
LimiterTick ==
    /\ now < MaxTime
    /\ now' = now + 1
    /\ UNCHANGED <<maxRequests, windowMs, requests, recorded, lastCall, followed>>
    /\ UNCHANGED notLimiterVars

\* canMakeRequest()
CanMakeRequest ==
    /\ requests' = Prune(requests, now)
    /\ lastCall' = [op |-> "canMakeRequest", at |-> now,
                    ok |-> BelowLimit(Len(requests')), n |-> 0]
    /\ UNCHANGED <<now, maxRequests, windowMs, recorded, followed>>
    /\ UNCHANGED notLimiterVars

\* recordRequest(): callable whatever canMakeRequest() said.
RecordRequest ==
    /\ Len(recorded) < MaxRecords
    /\ requests' = Append(requests, now)
    /\ recorded' = Append(recorded, now)
    /\ lastCall' = [op |-> "recordRequest", at |-> now, ok |-> FALSE, n |-> 0]
    /\ followed' = (followed /\ lastCall.op = "canMakeRequest" /\ lastCall.ok)
    /\ UNCHANGED <<now, maxRequests, windowMs>>
    /\ UNCHANGED notLimiterVars

\* getRemainingRequests()
GetRemainingRequests ==
    /\ requests' = Prune(requests, now)
    /\ lastCall' = [op |-> "getRemainingRequests", at |-> now, ok |-> FALSE,
                    n |-> Max0(maxRequests - Len(requests'))]
    /\ UNCHANGED <<now, maxRequests, windowMs, recorded, followed>>
    /\ UNCHANGED notLimiterVars

\* getTimeUntilNextRequest(): canMakeRequest() prunes first; both Date.now()
\* reads of one call give the same tick.
GetTimeUntilNextRequest ==
    /\ requests' = Prune(requests, now)
    /\ lastCall' = [op |-> "getTimeUntilNextRequest", at |-> now, ok |-> FALSE,
                    n |-> TimeUntilNext(requests', now)]
    /\ UNCHANGED <<now, maxRequests, windowMs, recorded, followed>>
    /\ UNCHANGED notLimiterVars

\* new RateLimiter(maxRequests, windowMs)
LimiterInit ==
    /\ ClientIdle
    /\ CreateErrorIdle
    /\ ValidateIdle
    /\ RetryIdle
    /\ BatcherIdle
    /\ CacheIdle
    /\ now = 0
    /\ maxRequests \in 0 .. MaxLimit
    /\ windowMs \in 1 .. MaxWindow
    /\ requests = <<>>
    /\ recorded = <<>>
    /\ lastCall = NoCall
    /\ followed = TRUE

LimiterNext ==
    \/ LimiterTick
    \/ CanMakeRequest
    \/ RecordRequest
    \/ GetRemainingRequests
    \/ GetTimeUntilNextRequest

SpecLimiter == LimiterInit /\ [][LimiterNext]_allVars

\* ------------------------------------------------------- RateLimiter: claims
\* Recorded timestamps t with at - t < windowMs.
RecentAt(at) == {i \in 1 .. Len(recorded) : at - recorded[i] < windowMs}

\* C20: canMakeRequest() answers true exactly when fewer than maxRequests of
\* the timestamps recorded so far are less than windowMs old.
C20_CanMakeRequestIffBelowLimit ==
    lastCall.op = "canMakeRequest" =>
        (lastCall.ok <=> Cardinality(RecentAt(lastCall.at)) < maxRequests)

\* C20 witness: with limit 2, at least two requests were recorded; the first
\* is now exactly windowMs old and canMakeRequest() answers true.
C20_Witness ==
    /\ lastCall.op = "canMakeRequest"
    /\ lastCall.ok
    /\ maxRequests = 2
    /\ Len(recorded) >= 2
    /\ now = recorded[1] + windowMs

\* C21: while every recordRequest() has come right after a canMakeRequest()
\* that answered true, at every instant at most maxRequests of the recorded
\* timestamps are less than windowMs old.
C21_NoOverAdmission ==
    followed => Cardinality(RecentAt(now)) <= maxRequests

\* C21 witness: under the protocol three requests were admitted with limit 2,
\* the third after the first had left the window, and two are inside it now.
C21_Witness ==
    /\ followed
    /\ maxRequests = 2
    /\ Len(recorded) = 3
    /\ Cardinality(RecentAt(now)) = 2

\* C22: under the protocol, a canMakeRequest() on a limiter that retains
\* maxRequests timestamps answers true exactly when the clock is at least
\* windowMs past the oldest of them: it refuses before, and admits again as
\* soon as that instant is reached.
C22_AdmitsAgainAfterWindow ==
    [][ (CanMakeRequest /\ followed /\ maxRequests >= 1 /\ Len(requests) = maxRequests) =>
            (lastCall'.ok <=> now >= MinOf(requests) + windowMs) ]_allVars

\* C22 witness: with limit 2 and both admitted timestamps still retained, the
\* check made exactly windowMs after the older one answered true and dropped it.
C22_Witness ==
    /\ followed
    /\ maxRequests = 2
    /\ recorded = <<0, 1>>
    /\ windowMs = 2
    /\ lastCall = [op |-> "canMakeRequest", at |-> 2, ok |-> TRUE, n |-> 0]
    /\ requests = <<1>>

\* C23: whenever canMakeRequest() would answer true (fewer than maxRequests
\* recorded timestamps are less than windowMs old), getTimeUntilNextRequest()
\* returns 0.
C23_NoWaitWhenAdmissible ==
    lastCall.op = "getTimeUntilNextRequest" =>
        (Cardinality(RecentAt(lastCall.at)) < maxRequests => lastCall.n = 0)

\* C23 witness: one request inside the window with limit 2, and
\* getTimeUntilNextRequest() returned 0.
C23_Witness ==
    /\ lastCall.op = "getTimeUntilNextRequest"
    /\ lastCall.n = 0
    /\ maxRequests = 2
    /\ Cardinality(RecentAt(lastCall.at)) = 1

\* =============================================================== ResponseCache
\* Date.now() > cached.expiry
ExpiredNever(entry, t) == FALSE

Expired(entry, t) == t > entry.expiry

\* expiry: Date.now() + (ttl * 1000)
ExpiryOf(t, ttl) == t + ttl * MsPerSecond

\* this.cache.set(key, {...}): Map.set replaces what the key held.
PutIfAbsent(c, key, entry) == IF c[key].has THEN c ELSE [c EXCEPT ![key] = entry]

Put(c, key, entry) == [c EXCEPT ![key] = entry]

\* What get(key) answers at time t.
Lookup(c, key, t) ==
    IF ~c[key].has THEN Null
    ELSE IF Expired(c[key], t) THEN Null
    ELSE c[key].data

\* Time passes.
CacheTick ==
    /\ cacheNow < MaxCacheTicks * TickMs
    /\ cacheNow' = cacheNow + TickMs
    /\ UNCHANGED <<cache, lastSet, cacheCall>>
    /\ UNCHANGED notCacheVars

\* a get that sweeps every expired entry out of the Map
EvictAllExpired(c, key, t) ==
    [k \in DOMAIN c |-> IF c[k].has /\ Expired(c[k], t) THEN NoEntry ELSE c[k]]

\* if (Date.now() > cached.expiry) this.cache.delete(key)
Evict(c, key, t) ==
    IF c[key].has /\ Expired(c[key], t) THEN [c EXCEPT ![key] = NoEntry] ELSE c

\* get(key)
CacheGet(key) ==
    /\ cache' = Evict(cache, key, cacheNow)
    /\ cacheCall' = [op |-> "get", key |-> key, at |-> cacheNow,
                     data |-> Lookup(cache, key, cacheNow)]
    /\ UNCHANGED <<cacheNow, lastSet>>
    /\ UNCHANGED notCacheVars

\* set() calls so far.
RECURSIVE SumN(_, _)
SumN(ls, ks) ==
    IF ks = {} THEN 0
    ELSE LET k == CHOOSE x \in ks : TRUE IN ls[k].n + SumN(ls, ks \ {k})
SetsSoFar == SumN(lastSet, Keys)

\* set(key, data, ttl)
CacheSet(key, data, ttl) ==
    /\ SetsSoFar < MaxSets
    /\ cache' = Put(cache, key, [has |-> TRUE, data |-> data,
                                  expiry |-> ExpiryOf(cacheNow, ttl)])
    /\ lastSet' = [lastSet EXCEPT ![key] =
                        [n |-> lastSet[key].n + 1, at |-> cacheNow, ttl |-> ttl,
                         data |-> data, before |-> Lookup(cache, key, cacheNow)]]
    /\ cacheCall' = [op |-> "set", key |-> key, at |-> cacheNow, data |-> data]
    /\ UNCHANGED cacheNow
    /\ UNCHANGED notCacheVars

\* clear()
CacheClear ==
    /\ cache' = [k \in Keys |-> NoEntry]
    /\ cacheCall' = [op |-> "clear", key |-> "", at |-> cacheNow, data |-> Null]
    /\ UNCHANGED <<cacheNow, lastSet>>
    /\ UNCHANGED notCacheVars

\* delete(key)
CacheDelete(key) ==
    /\ cache' = [cache EXCEPT ![key] = NoEntry]
    /\ cacheCall' = [op |-> "delete", key |-> key, at |-> cacheNow,
                     data |-> IF cache[key].has THEN "true" ELSE "false"]
    /\ UNCHANGED <<cacheNow, lastSet>>
    /\ UNCHANGED notCacheVars

\* new ResponseCache()
CacheInit ==
    /\ ClientIdle
    /\ CreateErrorIdle
    /\ ValidateIdle
    /\ RetryIdle
    /\ BatcherIdle
    /\ LimiterIdle
    /\ CacheIdle

CacheNext ==
    \/ CacheTick
    \/ \E key \in Keys : CacheGet(key)
    \/ \E key \in Keys, data \in CacheData, ttl \in 0 .. MaxTtl : CacheSet(key, data, ttl)
    \/ CacheClear
    \/ \E key \in Keys : CacheDelete(key)

SpecCache == CacheInit /\ [][CacheNext]_allVars

\* ------------------------------------------------------ ResponseCache: claims
\* Milliseconds between the latest set() of the key and the last call.
ElapsedSinceSet(key) == cacheCall.at - lastSet[key].at

\* C24: a value get(k) returns is the one of the latest set() of k, and its
\* expiry instant (time of that set + ttl seconds) is not earlier than the
\* time of the get.
C24_NeverReturnedPastExpiry ==
    (cacheCall.op = "get" /\ cacheCall.data # Null) =>
        LET s == lastSet[cacheCall.key] IN
        /\ s.n > 0
        /\ cacheCall.data = s.data
        /\ s.at + s.ttl * MsPerSecond >= cacheCall.at

\* C24 witness: get() returned the value at the very instant of its expiry,
\* one second after a set() with ttl 1.
C24_Witness ==
    /\ cacheCall.op = "get"
    /\ cacheCall.data # Null
    /\ lastSet[cacheCall.key].ttl = 1
    /\ ElapsedSinceSet(cacheCall.key) = MsPerSecond

\* C25: a get(k) made right after set(k, v, ttl) with ttl > 0, at the same
\* clock reading, returns v, whatever k held before; the entry it leaves has
\* the value and the expiry of this set.
C25_SetThenGet ==
    [][ \A k \in Keys :
            (/\ CacheGet(k)
             /\ cacheCall.op = "set"
             /\ cacheCall.key = k
             /\ cacheCall.at = cacheNow
             /\ lastSet[k].ttl > 0) =>
                /\ cacheCall'.data = cacheCall.data
                /\ cache'[k] = [has |-> TRUE, data |-> cacheCall.data,
                                expiry |-> cacheNow + lastSet[k].ttl * MsPerSecond] ]_allVars

\* C25 witness: k held v1, unexpired; set(k, v2, 1) replaced it and the get()
\* at the same instant returned v2.
C25_Witness ==
    /\ cacheCall.op = "get"
    /\ cacheCall.data = "v2"
    /\ lastSet[cacheCall.key].before = "v1"
    /\ lastSet[cacheCall.key].ttl = 1
    /\ ElapsedSinceSet(cacheCall.key) = 0

\* C26: a get(k) made when at least ttl seconds have passed since the latest
\* set(k, v, ttl), exactly ttl included, answers null and leaves k out of
\* the storage.
C26_ExpiredAtTtl ==
    cacheCall.op = "get" =>
        LET s == lastSet[cacheCall.key] IN
        (s.n > 0 /\ ElapsedSinceSet(cacheCall.key) >= s.ttl * MsPerSecond) =>
            /\ cacheCall.data = Null
            /\ ~cache[cacheCall.key].has

\* ============================================================== validateConfig
\* !x for a string or undefined
Falsy(x) == x \in {"undefined", ""}

\* The message pushed for an oauth field.
FieldError(f) ==
    CASE f = "consumerKey" -> "OAuth consumer key is required"
      [] f = "consumerSecret" -> "OAuth consumer secret is required"
      [] f = "tokenKey" -> "OAuth token key is required"
      [] f = "tokenSecret" -> "OAuth token secret is required"
      [] f = "realm" -> "OAuth realm is required"

\* if (!config.oauth.consumerKey) errors.push(...); ... one if per field
RECURSIVE OAuthFieldErrorsFirstOnly(_, _)
OAuthFieldErrorsFirstOnly(oauth, i) ==
    IF i > Len(OAuthFieldOrder) THEN <<>>
    ELSE IF Falsy(oauth[OAuthFieldOrder[i]]) THEN <<FieldError(OAuthFieldOrder[i])>>
    ELSE OAuthFieldErrorsFirstOnly(oauth, i + 1)

RECURSIVE OAuthFieldErrors(_, _)
OAuthFieldErrors(oauth, i) ==
    IF i > Len(OAuthFieldOrder) THEN <<>>
    ELSE (IF Falsy(oauth[OAuthFieldOrder[i]]) THEN <<FieldError(OAuthFieldOrder[i])>>
          ELSE <<>>)
         \o OAuthFieldErrors(oauth, i + 1)

\* validateConfig(config)
ValidateConfig(c) ==
    (IF ~c.hasOAuth THEN <<"OAuth configuration is required">>
     ELSE OAuthFieldErrors(c.oauth, 1))
    \o (IF Falsy(c.accountId) THEN <<"Account ID is required">> ELSE <<>>)

\* A call of validateConfig on the config at hand.
Validate ==
    /\ vcPc = "idle"
    /\ errors' = ValidateConfig(vcConfig)
    /\ vcPc' = "returned"
    /\ UNCHANGED vcConfig
    /\ UNCHANGED notValidateVars

ValidateInit ==
    /\ ClientIdle
    /\ CreateErrorIdle
    /\ RetryIdle
    /\ BatcherIdle
    /\ LimiterIdle
    /\ CacheIdle
    /\ vcConfig \in ConfigShapes
    /\ vcPc = "idle"
    /\ errors = <<>>

ValidateNext == Validate

SpecValidate == ValidateInit /\ [][ValidateNext]_allVars

\* ----------------------------------------------------- validateConfig: claims
\* The oauth fields of the config that are missing (left out or empty).
MissingFields == {f \in OAuthFields : vcConfig.oauth[f] \in {"undefined", ""}}
Holds(seq, s) == \E i \in 1 .. Len(seq) : seq[i] = s
NoDuplicates(seq) == \A i, j \in 1 .. Len(seq) : seq[i] = seq[j] => i = j

\* C27: validateConfig returns a list with exactly one message per missing
\* item: 'OAuth configuration is required' alone for a missing oauth block,
\* otherwise the message of each missing oauth field, plus 'Account ID is
\* required' for a missing accountId; nothing else, nothing twice, and the
\* empty list for a complete config.
C27_OneErrorPerMissingItem ==
    vcPc = "returned" =>
        /\ NoDuplicates(errors)
        /\ Holds(errors, "OAuth configuration is required") <=> ~vcConfig.hasOAuth
        /\ \A f \in OAuthFields :
            Holds(errors, FieldError(f)) <=> (vcConfig.hasOAuth /\ f \in MissingFields)
        /\ Holds(errors, "Account ID is required") <=>
                vcConfig.accountId \in {"undefined", ""}
        /\ Len(errors) = (IF vcConfig.hasOAuth THEN Cardinality(MissingFields) ELSE 1)
                         + (IF vcConfig.accountId \in {"undefined", ""} THEN 1 ELSE 0)

\* C27 witness: a config missing only tokenSecret got exactly the one
\* matching message.
C27_Witness ==
    /\ vcPc = "returned"
    /\ vcConfig.hasOAuth
    /\ MissingFields = {"tokenSecret"}
    /\ vcConfig.accountId = "value"
    /\ errors = <<"OAuth token secret is required">>


\* ===================================================================== logger
\* C28: for the same configuration, request options and transport behaviour,
\* request() yields the same outcome after the same number of transport
\* attempts whether or not a logger was supplied: at every step the client
\* built with the other choice of logger gets the same value back from the
\* transport call, takes the same retry decision and gives its caller the
\* same response or failure, and no failure originates in a logging call.
\* Logger methods are taken to return normally and to leave their arguments
\* alone.
C28_SameWithOrWithoutLogger ==
    /\ logging.same
    /\ ret # LoggerTypeError
    /\ outcome # LoggerTypeError

\* C28 witness: a client given a logger has finished a request that was
\* retried and failed, its logger having been called on the way
C28_Witness ==
    /\ pc = "done"
    /\ logging.logger
    /\ logging.called
    /\ calls >= 2
    /\ outcome.t = "AxiosError"


\* ==================================================================== restlet
\* the most extra query parameters a restlet() call is given
MaxParams == 2

AccountIds == {"acct"}

\* a JavaScript value of type string | number | boolean
Str(s) == [t |-> "string", n |-> 0, s |-> s]
Num(n) == [t |-> "number", n |-> n, s |-> ""]
Bool(b) == [t |-> "boolean", n |-> IF b THEN 1 ELSE 0, s |-> ""]

\* value.toString(), and the string conversion URLSearchParams applies
JsToString(v) ==
    CASE v.t = "string" -> v.s
      [] v.t = "number" -> ToString(v.n)
      [] v.t = "boolean" -> IF v.n = 1 THEN "true" ELSE "false"

\* an object: its own properties <<name, value>> in enumeration order, which
\* is integer-like names first, then the other names in insertion order
ParamNames == {"action", "script", "1"}
ParamValues == {Str("x"), Str("a b"), Num(5), Bool(TRUE)}
IsIndex(name) == name \in {"1"}

Names(obj) == {obj[i][1] : i \in 1 .. Len(obj)}
IndexCount(obj) == Cardinality({i \in 1 .. Len(obj) : IsIndex(obj[i][1])})

\* obj[name] = value
SetProperty(obj, name, value) ==
    IF name \in Names(obj)
    THEN [i \in 1 .. Len(obj) |->
             IF obj[i][1] = name THEN <<name, value>> ELSE obj[i]]
    ELSE IF IsIndex(name)
         THEN SubSeq(obj, 1, IndexCount(obj)) \o <<<<name, value>>>>
                  \o SubSeq(obj, IndexCount(obj) + 1, Len(obj))
         ELSE Append(obj, <<name, value>>)

\* { ...obj, ...src }: the properties of src are set on obj in their order
RECURSIVE Spread(_, _)
Spread(obj, src) ==
    IF src = <<>>
    THEN obj
    ELSE Spread(SetProperty(obj, src[1][1], src[1][2]), Tail(src))

\* the objects a caller can pass as params.params ({} when it is left out)
RECURSIVE ObjectsOfSize(_)
ObjectsOfSize(n) ==
    IF n = 0
    THEN {<<>>}
    ELSE { SetProperty(o, k, v) :
             o \in ObjectsOfSize(n - 1), k \in ParamNames, v \in ParamValues }
Objects == UNION { ObjectsOfSize(n) : n \in 0 .. MaxParams }

\* NetSuiteRestletParams: script and deploy are string | number
RestletParamsSet ==
    [script : {Str("123"), Num(7)}, deploy : {Str("1")}, params : Objects]

\* application/x-www-form-urlencoded: letters and digits stay, a space
\* becomes "+"
UrlEncode(s) == IF s = "a b" THEN "a+b" ELSE s
UrlDecode(s) == IF s = "a+b" THEN "a b" ELSE s

\* new URLSearchParams(record): one pair per own property, in enumeration
\* order, the value converted to a string
URLSearchParams(obj) ==
    [i \in 1 .. Len(obj) |-> <<obj[i][1], JsToString(obj[i][2])>>]

\* queryParams.toString(): the pairs name=value, encoded, joined by "&"
QueryToString(list) ==
    [i \in 1 .. Len(list) |-> <<UrlEncode(list[i][1]), UrlEncode(list[i][2])>>]

\* what the receiver reads from the query string
ParseQuery(query) ==
    [i \in 1 .. Len(query) |-> <<UrlDecode(query[i][1]), UrlDecode(query[i][2])>>]

\* buildRestletUrl(params): the URL as the text before "?" and the query
BuildRestletUrl(params, cfg) ==
    [base |-> "https://" \o cfg.accountId
                  \o ".restlets.api.netsuite.com/app/site/hosting/restlet.nl",
     query |-> QueryToString(URLSearchParams(
                   Spread(<<<<"script", Str(JsToString(params.script))>>,
                            <<"deploy", Str(JsToString(params.deploy))>>>>,
                          params.params)))]

\* restlet(params): this.request({ url, ...options }) with options left out
Restlet(params) ==
    /\ pc = "idle"
    /\ Request([url |-> BuildRestletUrl(params, config), method |-> "GET",
                body |-> NoBody, headers |-> NoHeaders,
                axiosConfig |-> NoAxiosConfig, retries |-> Undefined])

\* a client with an accountId, no middleware and no logger
RestletInit ==
    /\ ClientStart
    /\ config \in { [retries |-> MergeConfig(Undefined).retries, accountId |-> a] :
                     a \in AccountIds }
    /\ logging = NoLogging
    /\ UtilIdle

RestletNext ==
    \/ LoadPRetry
    \/ \E params \in RestletParamsSet : Restlet(params)
    \/ \E e \in TransportEvents : TransportReply(e)
    \/ MakeRequestResume
    \/ BackoffElapsed
    \/ Return

SpecRestlet == RestletInit /\ [][RestletNext]_allVars

\* the query the claim describes: script, deploy, then the extra parameters,
\* each with the value the caller gave
QueryAsGiven(params) ==
    <<<<"script", JsToString(params.script)>>,
      <<"deploy", JsToString(params.deploy)>>>>
        \o URLSearchParams(params.params)

\* C29: restlet({script, deploy, params}) sends its request to
\* https://{accountId}.restlets.api.netsuite.com/app/site/hosting/restlet.nl
\* with the query parameters script, deploy and then the extra params, in
\* that order and with the given script and deploy values, and for a
\* transport response of status 200 returns the transport body as data.
C29_RestletUrlAndData ==
    [][ /\ (pc = "idle" /\ pc' = "transport") =>
              \A params \in RestletParamsSet :
                  Restlet(params) =>
                      /\ requestConfig'.url.base =
                             "https://" \o config.accountId
                               \o ".restlets.api.netsuite.com/app/site/hosting/restlet.nl"
                      /\ ParseQuery(requestConfig'.url.query) = QueryAsGiven(params)
        /\ (MakeRequestResume /\ lastReply.kind = "status" /\ lastReply.status = 200) =>
              /\ pc' = "done"
              /\ outcome'.t = "response"
              /\ outcome'.data = BodyOf(200) ]_allVars


\* ====================================================== RequestBatcher: order
\* the ids, and the keys, handed to the processor so far, in call order
RECURSIVE FlushedIds(_)
FlushedIds(n) ==
    IF n = 0 THEN <<>> ELSE FlushedIds(n - 1) \o processorCalls[n].ids

RECURSIVE FlushedKeys(_)
FlushedKeys(n) ==
    IF n = 0 THEN <<>> ELSE FlushedKeys(n - 1) \o processorCalls[n].keys

\* C30: over any sequence of add() calls, timer firings and size-triggered
\* flushes, every added entry is handed to the processor in exactly one
\* flush (an entry not yet handed over is in the queue with the timer
\* pending that will flush it), each flush takes a prefix of at most
\* batchSize entries from the front of the queue, the key lists of the
\* processor calls concatenated in call order are the keys in add order, and
\* a timer-triggered and a size-triggered flush never take the same entry.
C30_FifoExactlyOnce ==
    LET ids == FlushedIds(Len(processorCalls))
        keys == FlushedKeys(Len(processorCalls))
    IN /\ ids \o IdsOf(batch) = [i \in 1 .. Len(addLog) |-> i]
       /\ keys = [i \in 1 .. Len(ids) |-> addLog[i].key]
       /\ \A c \in Calls :
             /\ Len(processorCalls[c].ids) >= 1
             /\ Len(processorCalls[c].ids) <= batchSize
       /\ batch # <<>> =>
             /\ batchTimeout # Undefined
             /\ \E t \in timers : t.h = batchTimeout
       /\ \A c, d \in Calls :
             (processorCalls[c].by # 0 /\ processorCalls[d].timer # 0) =>
                 ~ \E id \in Adds : /\ InCall(id, processorCalls[c])
                                     /\ InCall(id, processorCalls[d])

\* C30 witness: three entries were added; the first was flushed by the timer
\* and the next two by the add() that filled the queue
C30_Witness ==
    /\ Len(addLog) = 3
    /\ batch = <<>>
    /\ Len(processorCalls) = 2
    /\ processorCalls[1].timer # 0
    /\ processorCalls[1].ids = <<1>>
    /\ processorCalls[2].by # 0
    /\ processorCalls[2].ids = <<2, 3>>


\* ============================================================ retry controller
\* C31: the retry controller used by request() is in place from the moment
\* the client is constructed: whenever a request() is in flight or has
\* finished, the controller is loaded, and no request() ends with the failure
\* of calling a controller that is not there yet.
C31_ControllerInPlace ==
    /\ pc # "idle" => pRetry = "loaded"
    /\ pc = "done" => outcome # NotAFunction


\* ====================================================== retryWithBackoff: delay
\* min(initialDelay * factor^a, maxDelay) for the options of the running call,
\* a default standing in for an option left out
ExpectedDelay(a) ==
    LET initial == IF rwOptions.initialDelay = Undefined
                   THEN DefaultInitialDelay ELSE rwOptions.initialDelay
        cap == IF rwOptions.maxDelay = Undefined
               THEN DefaultMaxDelay ELSE rwOptions.maxDelay
        f == IF rwOptions.factor = Undefined THEN DefaultFactor ELSE rwOptions.factor
        grown == initial * Pow(f, a)
    IN IF grown <= cap THEN grown ELSE cap

\* C32: after failed attempt index a (0-based, a < maxRetries)
\* retryWithBackoff first invokes the observer (when one is given), then
\* suspends for exactly min(initialDelay * factor^a, maxDelay) ms, and only
\* then starts the next attempt; no delay is taken after the last attempt or
\* after a success.
C32_ObserverThenDelayThenRetry ==
    \A i \in 1 .. Len(rwTrace) :
        /\ rwTrace[i][1] = "fail" =>
              LET a == rwTrace[i][2] - 1
                  j == IF rwOptions.onRetry = "observer" THEN i + 2 ELSE i + 1
              IN IF a < RequestedMaxRetries
                 THEN /\ Len(rwTrace) >= j
                      /\ rwOptions.onRetry = "observer" => IsOnRetry(rwTrace[i + 1])
                      /\ rwTrace[j] = <<"sleep", ExpectedDelay(a)>>
                      /\ Len(rwTrace) > j => rwTrace[j + 1] = <<"call", a + 2>>
                 ELSE i = Len(rwTrace)
        /\ rwTrace[i][1] = "ok" => i = Len(rwTrace)
        /\ rwTrace[i][1] = "sleep" => i > 1 /\ rwTrace[i - 1][1] \in {"fail", "onRetry"}
        /\ (rwTrace[i][1] = "call" /\ i > 1) => rwTrace[i - 1][1] = "sleep"

\* C32 witness: with an observer, initialDelay 1000, factor 2 and maxDelay
\* 3000, the third failure was followed by the observer, a delay cut to 3000
\* and the fourth attempt
C32_Witness ==
    /\ rwOptions.onRetry = "observer"
    /\ rwOptions.maxDelay = 3000
    /\ Len(rwTrace) >= 4
    /\ \E i \in 1 .. Len(rwTrace) - 3 :
          /\ rwTrace[i] = <<"fail", 3>>
          /\ IsOnRetry(rwTrace[i + 1])
          /\ rwTrace[i + 2] = <<"sleep", 3000>>
          /\ rwTrace[i + 3] = <<"call", 4>>


\* ======================================================= ResponseCache: frame
\* C33: an expired entry stays in storage until get is called on its own key
\* (or the key is deleted, overwritten or the cache cleared): the passage of
\* time alone and get/set/delete on a different key never remove it or change
\* any other entry, and a get changes its own key only by removing an entry
\* that has expired.
C33_LazyEvictionOnly ==
    [][ /\ CacheTick => cache' = cache
        /\ \A k \in Keys :
              /\ (\/ CacheGet(k)
                  \/ CacheDelete(k)
                  \/ \E data \in CacheData, ttl \in 0 .. MaxTtl : CacheSet(k, data, ttl))
                    => \A j \in Keys \ {k} : cache'[j] = cache[j]
              /\ CacheGet(k) =>
                    \/ cache'[k] = cache[k]
                    \/ /\ cache[k].has
                       /\ cacheNow > cache[k].expiry
                       /\ cache'[k] = NoEntry ]_allVars

\* C33 witness: the entry of key "a" has expired and is still stored after
\* time has passed and get was called on the other key
C33_Witness ==
    /\ cache["a"].has
    /\ cacheNow > cache["a"].expiry
    /\ cacheCall.op = "get"
    /\ cacheCall.key = "b"
    /\ cacheCall.at > cache["a"].expiry


\* ========================================================= RateLimiter: window
\* C34: immediately after canMakeRequest() or getRemainingRequests() returns,
\* every timestamp retained by the limiter satisfies now - t < windowMs, where
\* now is the clock at that call; recordRequest() itself never prunes: it
\* keeps every timestamp it found, stale or not, and adds the clock's value.
C34_PrunedAfterCheck ==
    [][ /\ (CanMakeRequest \/ GetRemainingRequests) =>
              \A i \in 1 .. Len(requests') : now - requests'[i] < windowMs
        /\ RecordRequest =>
              /\ Len(requests') = Len(requests) + 1
              /\ SubSeq(requests', 1, Len(requests)) = requests
              /\ requests'[Len(requests')] = now ]_allVars

\* C34 witness: getRemainingRequests() has dropped at least one recorded
\* timestamp and kept at least one, all of them inside the window
C34_Witness ==
    /\ lastCall.op = "getRemainingRequests"
    /\ lastCall.at = now
    /\ Len(requests) >= 1
    /\ Len(recorded) > Len(requests)
    /\ \A i \in 1 .. Len(requests) : now - requests[i] < windowMs


\* ====================================================== RateLimiter: remaining
\* C35: getRemainingRequests() returns max(0, maxRequests - number of
\* recorded timestamps inside the window at the call), is never negative even
\* after over-admission, and is greater than 0 exactly when canMakeRequest()
\* called at the same instant returns true.
C35_RemainingAgreesWithCheck ==
    [][ /\ GetRemainingRequests =>
              LET inside == Cardinality(RecentAt(now)) IN
              /\ lastCall'.n >= 0
              /\ lastCall'.n = IF inside < maxRequests THEN maxRequests - inside ELSE 0
        /\ (GetRemainingRequests /\ lastCall.op = "canMakeRequest" /\ lastCall.at = now)
              => (lastCall'.n > 0 <=> lastCall.ok)
        /\ (CanMakeRequest /\ lastCall.op = "getRemainingRequests" /\ lastCall.at = now)
              => (lastCall'.ok <=> lastCall.n > 0) ]_allVars

\* C35 witness: more requests were recorded inside the window than the limit
\* allows, and getRemainingRequests() returned 0
C35_Witness ==
    /\ lastCall.op = "getRemainingRequests"
    /\ lastCall.n = 0
    /\ maxRequests >= 1
    /\ Cardinality(RecentAt(lastCall.at)) > maxRequests

\* ================================================================= createError
\* new NetSuiteError(message, status?, code?, details?, response?)
NewNetSuiteError(message, status, code, details, response) ==
    [t |-> "NetSuiteError", message |-> message, status |-> status, code |-> code,
     details |-> details, response |-> response]

\* a || b on strings: b stands in for undefined and for the empty string
OrElse(a, b) == IF a = "undefined" \/ a = "" THEN b ELSE a

\* error.response.data?.detail, error.response.data?.['o:errorCode']
DetailOf(data) == IF data.kind = "object" THEN data.detail ELSE "undefined"
ErrorCodeOf(data) == IF data.kind = "object" THEN data.errorCode ELSE "undefined"

IsTimeoutCode(code) == code = "ECONNABORTED" \/ code = "ETIMEDOUT"

FromTimeout ==
    NewNetSuiteError("Request timeout - NetSuite API is taking too long to respond",
                     TimeoutStatus, "TIMEOUT", NoData, NoResponse)

FromResponse(error) ==
    NewNetSuiteError(OrElse(DetailOf(error.response.data), "Error from NetSuite API"),
                     error.response.status, ErrorCodeOf(error.response.data),
                     error.response.data, error.response)

FromOther(error) ==
    NewNetSuiteError(OrElse(error.message, "Unknown error occurred"),
                     UnknownStatus, "UNKNOWN_ERROR", NoData, NoResponse)

\* a createError that looks at error.response before error.code
CreateErrorResponseFirst(error) ==
    IF error.response.has THEN FromResponse(error)
    ELSE IF IsTimeoutCode(error.code) THEN FromTimeout
    ELSE FromOther(error)

\* createError(error)
CreateError(error) ==
    IF IsTimeoutCode(error.code) THEN FromTimeout
    ELSE IF error.response.has THEN FromResponse(error)
    ELSE FromOther(error)

\* a call of createError on the failure at hand
CallCreateError ==
    /\ cePc = "idle"
    /\ ceResult' = CreateError(ceError)
    /\ cePc' = "returned"
    /\ UNCHANGED ceError
    /\ UNCHANGED notCreateErrorVars

CreateErrorInit ==
    /\ ClientIdle
    /\ ValidateIdle
    /\ RetryIdle
    /\ BatcherIdle
    /\ LimiterIdle
    /\ CacheIdle
    /\ ceError \in ErrorShapes
    /\ cePc = "idle"
    /\ ceResult = NoCreated

CreateErrorNext == CallCreateError

SpecCreateError == CreateErrorInit /\ [][CreateErrorNext]_allVars

\* C36: createError always returns a typed failure: a failure with a timeout
\* code (ECONNABORTED or ETIMEDOUT) maps to code 'TIMEOUT' with status 504,
\* even when it also carries a response; otherwise a failure carrying a
\* response maps to that response's status and its body as details; any other
\* failure maps to status 500 with code 'UNKNOWN_ERROR'.
C36_TypedFailure ==
    cePc = "returned" =>
        /\ ceResult.t = "NetSuiteError"
        /\ IF ceError.code \in {"ECONNABORTED", "ETIMEDOUT"}
           THEN /\ ceResult.code = "TIMEOUT"
                /\ ceResult.status = 504
           ELSE IF ceError.response.has
           THEN /\ ceResult.status = ceError.response.status
                /\ ceResult.details = ceError.response.data
           ELSE /\ ceResult.status = 500
                /\ ceResult.code = "UNKNOWN_ERROR"

\* C36 witness: a failure with code ECONNABORTED that also carries a response
\* of status 503 came back as TIMEOUT with status 504
C36_Witness ==
    /\ cePc = "returned"
    /\ ceError.code = "ECONNABORTED"
    /\ ceError.response.has
    /\ ceError.response.status = 503
    /\ ceResult.code = "TIMEOUT"
    /\ ceResult.status = 504


\* ====================================================== RequestBatcher: timer
\* C37: for batchSize >= 1, whenever control returns from add() or from a
\* timer callback, the pending queue holds fewer than batchSize entries, and
\* a flush timer is armed if and only if the queue is non-empty: the timer
\* this.batchTimeout names is the one pending timer, and there is none when
\* the queue is empty.
C37_QueueBelowSizeTimerIffPending ==
    /\ Len(batch) < batchSize
    /\ batch # <<>> <=> timers # {}
    /\ batch # <<>> <=> batchTimeout # Undefined
    /\ \A t \in timers : t.h = batchTimeout

\* C37 witness: with batchSize 2 the second add() flushed both entries and
\* cancelled the timer the first add() had armed; a third add() has armed a
\* timer for its entry
C37_Witness ==
    /\ batchSize = 2
    /\ Len(processorCalls) = 1
    /\ processorCalls[1].by = 2
    /\ processorCalls[1].ids = <<1, 2>>
    /\ IdsOf(batch) = <<3>>
    /\ timers = {[h |-> 3, delay |-> batchDelay]}


\* =================================================== RequestBatcher: settling
\* the n-th processor call completes, with a Map or with a failure
Completes(n) ==
    \E f \in flights :
        /\ f.n = n
        /\ \/ ProcessorRaises(f)
           \/ \E results \in Mappings : ProcessorReturns(f, results)

\* armed timers fire and every processor call eventually completes
SpecBatcherLive ==
    /\ BatcherInit
    /\ [][BatcherNext]_allVars
    /\ WF_allVars(TimerFires)
    /\ \A n \in 1 .. MaxAdds : WF_allVars(Completes(n))

IsSettled(p) == p.st \in {"resolved", "rejected"}

\* C38: for batchSize >= 1, every promise returned by add() is eventually
\* settled, and is settled exactly once (resolved or rejected, and what it was
\* settled with never changes afterwards), provided armed timers fire and
\* every processor call eventually completes, also when several flushes are
\* in flight at once and complete out of order.  Over the finitely many add()
\* calls of a run, "each pending promise is eventually settled" is "again and
\* again no promise is pending", a settled promise staying settled.
C38_EveryPromiseSettlesOnce ==
    /\ []<>(\A id \in 1 .. MaxAdds : promises[id].st # "pending")
    /\ [][ \A id \in 1 .. MaxAdds :
              IsSettled(promises[id]) => promises'[id] = promises[id] ]_allVars

\* C38 witness: two flushes were in flight at once; the second has completed
\* and its promise is settled while the first is still in flight
C38_Witness ==
    /\ Len(processorCalls) >= 2
    /\ processorCalls[1].outcome = "pending"
    /\ processorCalls[2].outcome # "pending"
    /\ \A i \in 1 .. Len(processorCalls[2].ids) :
          IsSettled(promises[processorCalls[2].ids[i]])
    /\ \A i \in 1 .. Len(processorCalls[1].ids) :
          promises[processorCalls[1].ids[i]].st = "pending"


\* =========================================================== RateLimiter: wait
\* the oldest recorded timestamp that is less than windowMs old at time at
OldestInWindow(at) ==
    CHOOSE t \in {recorded[i] : i \in RecentAt(at)} :
        \A i \in RecentAt(at) : t <= recorded[i]

\* C39: when canMakeRequest() is false and the window holds at least one
\* timestamp, getTimeUntilNextRequest() returns exactly
\* windowMs - (now - oldest retained timestamp), which is greater than 0; it
\* never returns a negative value.
C39_WaitUntilOldestLeaves ==
    lastCall.op = "getTimeUntilNextRequest" =>
        /\ lastCall.n >= 0
        /\ (/\ Cardinality(RecentAt(lastCall.at)) >= maxRequests
            /\ RecentAt(lastCall.at) # {}) =>
              /\ lastCall.n = windowMs - (lastCall.at - OldestInWindow(lastCall.at))
              /\ lastCall.n > 0

\* C39 witness: the limit of 2 is used up by two timestamps of different age
\* and the wait returned is the time until the older one leaves the window
C39_Witness ==
    /\ lastCall.op = "getTimeUntilNextRequest"
    /\ lastCall.at = now
    /\ maxRequests = 2
    /\ Len(requests) = 2
    /\ requests[1] < requests[2]
    /\ lastCall.n = windowMs - (now - requests[1])
    /\ lastCall.n > 0


\* ================================================================ signed calls
\* per-request headers that name Authorization themselves
OwnAuthorization == [k \in {"Authorization"} |-> <<"caller">>]

\* axiosConfig that sets headers of its own
AxiosConfigWithHeaders == [k \in {"headers"} |-> CustomHeaders]

\* request options with per-request headers and transport overrides
SignedOptionsSet ==
    { [url |-> Url, method |-> m, body |-> NoBody, headers |-> h,
       axiosConfig |-> a, retries |-> r] :
        m \in Methods,
        h \in {NoHeaders, CustomHeaders, OwnAuthorization},
        a \in {NoAxiosConfig, AxiosConfigWithHeaders},
        r \in {Undefined, 1} }

\* a client without middleware and without logger
SignedInit ==
    /\ ClientStart
    /\ config = MergeConfig(Undefined)
    /\ logging = NoLogging
    /\ UtilIdle

SignedNext ==
    \/ LoadPRetry
    \/ \E o \in SignedOptionsSet : Request(o)
    \/ \E e \in TransportEvents : TransportReply(e)
    \/ MakeRequestResume
    \/ BackoffElapsed
    \/ Return

SpecSigned == SignedInit /\ [][SignedNext]_allVars

\* C40: every transport call issued by request(), on the first attempt and on
\* every retry, carries the authorization header that the signer produced for
\* that request's URL and method: per-request headers and transport-specific
\* overrides (axiosConfig) cannot remove or replace it.
C40_SignedHeaderOnEveryCall ==
    pc = "transport" =>
        /\ "Authorization" \in DOMAIN sent
        /\ sent["Authorization"] =
              GenerateAuthHeader(options.url, options.method)["Authorization"]

====
